---- MODULE Spec2Model ----
(***************************************************************************)
(* LC76G GNSS module over register-addressed I2C: the vendor demo          *)
(* (src/demo/C: Read_Thread poller, Write_Data_and_Get_Rsp coordinator,    *)
(* Write_Data flow-controlled writer, Ql_Command_Get_Param validator) and  *)
(* its Pico port (src/src/gps/lc76g_i2c_adaptor.c).                        *)
(*                                                                         *)
(* C strings are sequences of byte values 1..255 (the terminating NUL is   *)
(* implicit); fixed buffers that are only ever written with non-NUL bytes  *)
(* from offset 0 or from their current end are held as their C-string      *)
(* value.                                                                  *)
(***************************************************************************)
EXTENDS Integers, Sequences, FiniteSets, TLC

(***************************************************************************)
(* Program constants                                                       *)
(***************************************************************************)
Format_Error == 1
CheckSum_Error == 2
Data_Error == 3
No_Error == 0

WAITING == 1
NOGET == 2
GET == 0

RETRY_TIME == 20

PARAM_ROWS == 40
PARAM_COLS == 30

\* the idle polls after which Read_Thread wakes the module (i2c_adapt.c:136)
WAKE_POLLS == 30

(***************************************************************************)
(* Strings used by the checked scenarios (ASCII codes)                     *)
(***************************************************************************)
\* "$PMTK220,1000"
CmdLong == <<36, 80, 77, 84, 75, 50, 50, 48, 44, 49, 48, 48, 48>>
\* "$PMTK605"
CmdShort == <<36, 80, 77, 84, 75, 54, 48, 53>>
\* "$PMTK001"
PfxAck == <<36, 80, 77, 84, 75, 48, 48, 49>>
\* "$GNGLL"
PfxGll == <<36, 71, 78, 71, 76, 76>>
\* "$PMTK001,220,3*30\r\n"
FrameAck == <<36, 80, 77, 84, 75, 48, 48, 49, 44, 50, 50, 48, 44, 51, 42, 51, 48, 13, 10>>
\* "$PMTK001,220,3*2C\r\n"
FrameAck2C == <<36, 80, 77, 84, 75, 48, 48, 49, 44, 50, 50, 48, 44, 51, 42, 50, 67, 13, 10>>
\* "$GNGLL,1*53\r\n"
FrameGll == <<36, 71, 78, 71, 76, 76, 44, 49, 42, 53, 51, 13, 10>>
\* "$GNGLL"  and  ",1*53\r\n": FrameGll split over two polls
FragGllHead == <<36, 71, 78, 71, 76, 76>>
FragGllTail == <<44, 49, 42, 53, 51, 13, 10>>
\* "$PMTK001,220,3*2C\r\n$PMTK001,220,3*30\r\n": a frame with a wrong
\* checksum followed by a valid one, drained in one poll
TwoAcks == FrameAck2C \o FrameAck

\* sizeof cmd_buf, ex_rsp_buf and rsp_buf of Ql_GNSS_Command_TypeDef
BUF_SIZE == 100

\* drained data of BUF_SIZE + 1 characters '~' with no line end
LongFragment == [i \in 1..(BUF_SIZE + 1) |-> 126]

(***************************************************************************)
(* libc string functions                                                   *)
(***************************************************************************)
\* the one element of a singleton set; {e : x \in {v}} evaluates v once and
\* hands its value to e
TheValue(S) == CHOOSE x \in S : TRUE

\* s starts with p
HasPrefix(s, p) == Len(p) <= Len(s) /\ SubSeq(s, 1, Len(p)) = p

\* strstr: 1-based position of the first occurrence of needle in hay,
\* 0 for NULL. An empty needle is found at the start of hay.
StrStr(hay, needle) ==
    TheValue({IF hits = {} THEN 0
              ELSE CHOOSE i \in hits : \A h \in hits : i <= h :
                hits \in {{i \in 1..(Len(hay) + 1) :
                            /\ i + Len(needle) - 1 <= Len(hay)
                            /\ SubSeq(hay, i, i + Len(needle) - 1)
                                  = needle}}})

\* the string from 1-based position p on
From(s, p) == SubSeq(s, p, Len(s))

\* memcpy(dst, src, strlen(src)) at offset 0 of a zero-terminated buffer:
\* no terminator is written, the old bytes past the copy stay.
Overlay(old, new) == new \o SubSeq(old, Len(new) + 1, Len(old))

(***************************************************************************)
(* i2c_utils.c                                                             *)
(***************************************************************************)
\* data_interception(src, "\n", des): 1 when src has no "\n"; else copies
\* src up to and including the first "\n" over des (no terminator), 0.
\* des is given and returned as the C string that starts at the copy target.
data_interception(src, des) ==
    TheValue({IF pos = 0 THEN [ret |-> 1, des |-> des]
              ELSE [ret |-> 0, des |-> Overlay(des, SubSeq(src, 1, pos))] :
                pos \in {StrStr(src, <<10>>)}})

(***************************************************************************)
(* ql_cmd_encode.c / ql_cmd_decode.c                                       *)
(***************************************************************************)
RECURSIVE BitXor(_, _)
BitXor(a, b) ==
    IF a = 0 THEN b
    ELSE IF b = 0 THEN a
    ELSE (((a % 2) + (b % 2)) % 2) + 2 * BitXor(a \div 2, b \div 2)

\* the XOR of the bytes; the XOR of the rest is passed on as a value
RECURSIVE XorAll(_)
XorAll(buffer) ==
    IF buffer = <<>> THEN 0
    ELSE TheValue({BitXor(Head(buffer), x) : x \in {XorAll(Tail(buffer))}})

\* a checksum that drops the high nibble
Ql_Get_Command_Checksum_LowNibble(buffer) == (XorAll(buffer) % 256) % 16

\* Ql_Get_Command_Checksum(buffer, buffer_len): XOR of the bytes in a
\* uint8_t, returned as high nibble * 16 + low nibble.
Ql_Get_Command_Checksum(buffer) ==
    LET checkSumL == XorAll(buffer) % 256
        checkSumR == checkSumL % 16
    IN ((checkSumL \div 16) % 16) * 16 + checkSumR

\* The parameter table char param[40][30] as its flat byte image without
\* trailing zero bytes; param[j][k] is byte j*30+k.
TrimZeros(tab) ==
    TheValue({SubSeq(t, 1, CHOOSE n \in 0..Len(t) :
                             /\ n = 0 \/ t[n] # 0
                             /\ \A m \in (n + 1)..Len(t) : t[m] = 0) :
                t \in {tab}})

ByteAt(tab, idx) == IF idx < Len(tab) THEN tab[idx + 1] ELSE 0

PutByte(tab, idx, v) ==
    TheValue({IF i < Len(tab) THEN TrimZeros([tab EXCEPT ![i + 1] = v])
              ELSE IF v = 0 THEN tab
              ELSE tab \o [n \in 1..(i - Len(tab)) |-> 0] \o <<v>> :
                i \in {idx}})

\* the C string in row j of the table
RECURSIVE CStrFrom(_, _)
CStrFrom(tab, idx) ==
    IF ByteAt(tab, idx) = 0 THEN <<>>
    ELSE <<ByteAt(tab, idx)>> \o CStrFrom(tab, idx + 1)

ParamRow(contx, j) == CStrFrom(contx.param, j * PARAM_COLS)

\* param[0..n] as a list of C strings
ParamList(contx, n) == [j \in 1..(n + 1) |-> ParamRow(contx, j - 1)]

EmptyContx == [param |-> <<>>, param_num |-> 0, checksum |-> 0]

\* command[i] for a 0-based i: the terminator at i = length, and `oob`
\* for a read before the start of the buffer.
CharAt(command, i, oob) ==
    IF i < 0 THEN oob
    ELSE IF i < Len(command) THEN command[i + 1]
    ELSE 0

\* the for loop of Ql_Command_Get_Param (ql_cmd_decode.c:17-31); the table
\* written so far is passed on as a value
RECURSIVE ParamLoop(_, _, _, _, _)
ParamLoop(command, i, j, k, tab) ==
    IF i >= Len(command) THEN [err |-> No_Error, j |-> j, k |-> k, tab |-> tab]
    ELSE IF command[i + 1] > 122 \/ command[i + 1] < 10
    THEN [err |-> Data_Error, j |-> j, k |-> k, tab |-> tab]
    ELSE IF command[i + 1] = 44 \/ command[i + 1] = 42
    THEN TheValue({ParamLoop(command, i + 1, j + 1, 0, t) :
                     t \in {PutByte(tab, j * PARAM_COLS + k, 0)}})
    ELSE TheValue({ParamLoop(command, i + 1, j, k + 1, t) :
                     t \in {PutByte(tab, j * PARAM_COLS + k,
                                    command[i + 1])}})

\* the index pairs <<j, k>> of the assignments to contx->param[j][k] in the
\* for loop (ql_cmd_decode.c:23 and 28) and after it (line 36)
RECURSIVE ParamWrites(_, _, _, _)
ParamWrites(command, i, j, k) ==
    IF i >= Len(command) THEN (IF k > 30 THEN {} ELSE {<<j, k>>})
    ELSE IF command[i + 1] > 122 \/ command[i + 1] < 10 THEN {}
    ELSE IF command[i + 1] = 44 \/ command[i + 1] = 42
    THEN {<<j, k>>} \cup ParamWrites(command, i + 1, j + 1, 0)
    ELSE {<<j, k>>} \cup ParamWrites(command, i + 1, j, k + 1)

\* the indices i of the reads command[i] of the framing test (lines 10-13)
FramingReads(command) ==
    {0, Len(command) - 1, Len(command) - 2, Len(command) - 5}

HexNibble(c) == IF c >= 65 THEN c - 65 + 10 ELSE c - 48

\* Ql_Command_Get_Param(command, strlen(command), contx): the error code
\* and the parameter context as the call leaves it.
Ql_Command_Get_Param(command, contx, oob) ==
    LET length == Len(command)
    IN
    IF \/ 36 # CharAt(command, 0, oob)
       \/ 10 # CharAt(command, length - 1, oob)
       \/ 13 # CharAt(command, length - 2, oob)
       \/ 42 # CharAt(command, length - 5, oob)
    THEN [err |-> Format_Error, contx |-> contx]
    ELSE TheValue({
    IF r.err = Data_Error
    THEN [err |-> Data_Error, contx |-> [contx EXCEPT !.param = r.tab]]
    ELSE IF r.k > 30
    THEN [err |-> Format_Error, contx |-> [contx EXCEPT !.param = r.tab]]
    ELSE TheValue({
    LET checksum_l == HexNibble(ByteAt(tab, r.j * PARAM_COLS))
        checksum_r == HexNibble(ByteAt(tab, r.j * PARAM_COLS + 1))
        out == [param |-> tab, param_num |-> r.j, checksum |-> checksum]
    IN IF checksum_l * 16 + checksum_r # checksum
       THEN [err |-> CheckSum_Error, contx |-> out]
       ELSE [err |-> No_Error, contx |-> out] :
         tab \in {PutByte(r.tab, r.j * PARAM_COLS + r.k, 0)},
         checksum \in {Ql_Get_Command_Checksum(
                          SubSeq(command, 2, length - 5))}}) :
      r \in {ParamLoop(command, 0, 0, 0, contx.param)}})

(***************************************************************************)
(* Bounds of the model                                                     *)
(***************************************************************************)
\* caller threads of Write_Data_and_Get_Rsp
NumCallers == 2
\* calls of Write_Data_and_Get_Rsp made in one behaviour
MaxCalls == 2

Callers == 1..NumCallers

\* a NULL expect_rsp
NullPtr == <<0>>

\* consecutive polls in which the module has nothing to send
MaxIdlePolls == 1
\* drained buffers the poller examines for a pending request in one behaviour
MaxCandidates == 2

\* a retry budget that does not fit the 8-bit retry_time
BigTimeout == 257

\* the arguments callers pass: command, expected prefix, retry budget
Requests ==
    {[cmd_buf |-> CmdLong, expect_rsp |-> PfxAck, timeout |-> 1],
     [cmd_buf |-> CmdShort, expect_rsp |-> PfxGll, timeout |-> 2],
     [cmd_buf |-> CmdShort, expect_rsp |-> NullPtr, timeout |-> 1],
     [cmd_buf |-> CmdLong, expect_rsp |-> PfxAck, timeout |-> BigTimeout]}

\* what one Read_Data call of the poller can leave in Read_data_buf
Drains ==
    {FrameAck, FrameAck2C, FrameGll, FragGllHead, FragGllTail, TwoAcks,
     LongFragment}

(***************************************************************************)
(* State of the demo (i2c_adapt.c, i2c_write.c)                            *)
(***************************************************************************)
VARIABLES
    Ql_Write_Cmd,     \* pthread mutex: 0 when free, else the caller holding it
    i2c_mutex,        \* pthread mutex: "free", else the task holding it
    Ql_Command_sem,   \* semaphore count
    Ql_Command_Deal,  \* the shared request: cmd_buf, ex_rsp_buf, cmd_par,
                      \* rsp_buf, retry_time, get_rsp_flag
    rt,               \* Read_Thread: pc and its locals write_flag, retry_time,
                      \* half_rsp_flag, wake_flag, and data_length while
                      \* the drained data is being examined
    Read_data_buf,    \* the poller's drain buffer, as a C string
    call,             \* per caller: pc, arguments, return value, info
    hist              \* history: calls made, the signals posted and not yet
                      \* consumed, the signal the poller consumed last, who
                      \* published cmd_buf, the last transmission, the line
                      \* validated when GET was set last, who had
                      \* published cmd_buf then, the flag before and the
                      \* signals then pending

demoVars == <<Ql_Write_Cmd, i2c_mutex, Ql_Command_sem, Ql_Command_Deal, rt,
              Read_data_buf, call, hist>>

(***************************************************************************)
(* State of one Write_Data call (i2c_write.c:51-155)                       *)
(***************************************************************************)
\* payload bytes of one Write_Data call
MaxPayload == 3
\* the largest free space the module reports
MaxFree == 3
\* rounds of the do-while loop of one Write_Data call
MaxRounds == 4

VARIABLES
    wd,   \* pc, the loop counter i, data_length, and the locals free_length,
          \* data_length_temp, remain_flag; ret once returned
    wh    \* history of the call: rounds started, the bursts acknowledged
          \* on the write-data address, the operations that failed on all
          \* attempts, the zero free-space reports in a row, whether one
          \* was seen, whether Recovery_I2C has run since the last one

writerVars == <<wd, wh>>

InitWriter ==
    /\ wd = [pc |-> "idle", i |-> 0, data_length |-> 0, free_length |-> 0,
             data_length_temp |-> 0, remain_flag |-> 0, ret |-> 0]
    /\ wh = [rounds |-> 0, bursts |-> <<>>, exhausted |-> {}, zeros |-> 0,
             zero_seen |-> FALSE, recovered |-> FALSE]

(***************************************************************************)
(* State of the Pico port (src/src/gps/lc76g_i2c_adaptor.c)                *)
(***************************************************************************)
\* tasks that call the port's API
NumTasks == 2
\* API calls made in one behaviour
MaxPicoCalls == 2
\* reads one lc76g_send_command_and_get_response call makes while it waits
MaxPicoReads == 1
\* bus transactions of one write_data_to_lc76g call
MaxWriteTx == 2

Tasks == 1..NumTasks

\* the API functions a task calls
Ops == {"send_command_and_get_response", "send_command", "read_gps_data"}

\* the data lengths the module reports to read_data_from_lc76g: nothing,
\* one sentence, and a length the port rejects (line 271)
PicoLens == {0, Len(FrameGll), Len(FrameAck), 35 * 1024}

VARIABLES
    g_i2c_mutex,        \* 0 when free, else the task holding it
    g_write_cmd_mutex,  \* 0 when free, else the task holding it
    pt,                 \* per task: the API function called, pc, the retry
                        \* counter i, data_length, the drained data_buf,
                        \* the result of read_data_from_lc76g or
                        \* write_data_to_lc76g, reads made, found, ret
    pcalls              \* API calls made

picoVars == <<g_i2c_mutex, g_write_cmd_mutex, pt, pcalls>>

InitPico ==
    /\ g_i2c_mutex = 0
    /\ g_write_cmd_mutex = 0
    /\ pt = [t \in Tasks |->
               [op |-> "none", pc |-> "idle", i |-> 0, data_length |-> 0,
                data_buf |-> <<>>, ok |-> FALSE, reads |-> 0, wtx |-> 0,
                found |-> FALSE, ret |-> FALSE]]
    /\ pcalls = 0

(***************************************************************************)
(* State of one Read_Data call (i2c_read.c:87-231; read_data_from_lc76g in *)
(* the Pico port has the same body)                                        *)
(***************************************************************************)
QL_MAX_DATA_LENGTH == 4096

\* no run of Recovery_I2C yet
NoRecovery == [ran |-> FALSE, acks |-> <<>>, probed |-> <<>>, ret |-> 0]

\* the history of a call that has just started
NewReadHistory ==
    [has_len |-> FALSE, len |-> 0, cfg_writes |-> FALSE,
     data_reads |-> FALSE, stored |-> 0, probe_ok |-> FALSE,
     rec |-> NoRecovery, failed |-> FALSE, reqs |-> <<>>]

\* the four bytes the module can answer to the read of the pending length:
\* 0, 13, 4095, 4096, 4097, 35*1024 - 1, 35*1024, 2^31, 2^32 - 1
LengthBytes ==
    {<<0, 0, 0, 0>>, <<13, 0, 0, 0>>, <<255, 15, 0, 0>>, <<0, 16, 0, 0>>,
     <<1, 16, 0, 0>>, <<255, 139, 0, 0>>, <<0, 140, 0, 0>>,
     <<0, 0, 0, 128>>, <<255, 255, 255, 255>>}

VARIABLES
    rd,   \* pc, the loop counter i, and the locals data_length,
          \* remain_length, total_length; ret once returned
    rh    \* history of the call: whether the pending length was read and
          \* its value, the read-data configuration writes and the data
          \* reads issued, the data bytes copied into data_buf; whether
          \* the last probe of 0x50 was acknowledged, the last run of
          \* Recovery_I2C, whether a bus operation failed, the lengths
          \* Read_RD_Data was asked to read from the data register

readerVars == <<rd, rh>>

InitReader ==
    /\ rd = [pc |-> "idle", i |-> 0, data_length |-> 0, remain_length |-> 0,
             total_length |-> 0, ret |-> 0]
    /\ rh = NewReadHistory

(***************************************************************************)
(* State of the validator under test (ql_cmd_decode.c:6-49;                *)
(* lc76g_command_get_param in the Pico port has the same body)             *)
(***************************************************************************)
\* bytes of a payload
MaxPayloadLen == 2

\* payload bytes: 0x09, 0x1F, '*', ',', '1', 'A', 'Q', '{'
PayloadBytes == {9, 31, 42, 44, 49, 65, 81, 123}

\* characters of a checksum text: '0' '1' '2' '3' '4' ':' 'A' 'H'
ChecksumChars == {48, 49, 50, 51, 52, 58, 65, 72}

\* a payload of 'A's that makes "$AA...A" as long as a row of param
LongPayload == [i \in 1..(PARAM_COLS - 1) |-> 65]

Payloads ==
    UNION {[1..n -> PayloadBytes] : n \in 0..MaxPayloadLen}
       \cup {LongPayload}

VARIABLES
    vs    \* pc; the payload and the frame handed to the validator; whether
          \* its checksum text was encoded from the payload; the frame it
          \* was derived from by replacing one payload byte, if any; the
          \* context before the call; the error code and the context after

validatorVars == <<vs>>

InitValidator ==
    vs = [pc |-> "idle", payload |-> <<>>, command |-> <<>>,
          encoded |-> FALSE, flipped |-> FALSE, base |-> <<>>,
          contx_in |-> EmptyContx, err |-> No_Error,
          contx_out |-> EmptyContx]

(***************************************************************************)
(* Log_Thread (i2c_adapt.c:148-196), the wake-up bookkeeping of Read_Thread*)
(* (i2c_adapt.c:126-141) and the byte codec of the control messages        *)
(* (i2c_utils.c:8-28, i2c_write.c:24-38, i2c_read.c:70-83)                 *)
(***************************************************************************)
NoWake == [ran |-> FALSE, len |-> 0, before |-> 0, woke |-> FALSE,
           sent |-> <<>>]

NoMessage == [addr |-> 0, bytes |-> <<>>, reg |-> 0, cfg_len |-> 0]

VARIABLES
    lt,   \* Log_Thread: pc and the value it returned with
    wk,   \* the last cycle Read_Thread ended without a request: the
          \* Read_Data result, wake_flag before it, whether Ql_Wake_I2C was
          \* called and the bytes it wrote
    cd    \* the codec: pc, the number, its four bytes, the number read
          \* back, and the last control message

auxVars == <<lt, wk, cd>>

InitAux ==
    /\ lt = [pc |-> "start", ret |-> 0]
    /\ wk = NoWake
    /\ cd = [pc |-> "idle", num |-> 0, buf |-> <<0, 0, 0, 0>>, back |-> 0,
             msg |-> NoMessage]

vars == <<demoVars, writerVars, picoVars, readerVars, validatorVars, auxVars>>

NoSig == [ticket |-> 0, cmd |-> <<>>, expect |-> NullPtr]

InitDemo ==
    /\ Ql_Write_Cmd = 0
    /\ i2c_mutex = "free"
    /\ Ql_Command_sem = 0
    /\ Ql_Command_Deal = [cmd_buf |-> <<>>, ex_rsp_buf |-> <<>>,
                          cmd_par |-> EmptyContx, rsp_buf |-> <<>>,
                          retry_time |-> 0, get_rsp_flag |-> 0]
    /\ rt = [pc |-> "lock", write_flag |-> 0, retry_time |-> 0,
             half_rsp_flag |-> 0, data_length |-> 0, wake_flag |-> 0]
    /\ Read_data_buf = <<>>
    /\ call = [c \in Callers |->
                 [pc |-> "idle", ticket |-> 0, cmd_buf |-> <<>>,
                  expect_rsp |-> NullPtr, timeout |-> 0, ret |-> 0,
                  info |-> EmptyContx]]
    /\ hist = [calls |-> 0, polls |-> 0, sigq |-> <<>>, cur_sig |-> NoSig,
               cmd_ticket |-> 0, nulls |-> FALSE, sent |-> 0,
               tx |-> [bytes |-> <<>>, cmd_ticket |-> 0, sig |-> NoSig],
               get |-> [line |-> <<>>, half |-> FALSE, ticket |-> 0,
                       was |-> 0, sem |-> 0]]

(***************************************************************************)
(* Write_Data_and_Get_Rsp (i2c_write.c:162-196), one action per step       *)
(***************************************************************************)
\* a thread calls Write_Data_and_Get_Rsp(cmd_buf, expect_rsp, timeout, info)
Call(c) ==
    /\ call[c].pc \in {"idle", "ret"}
    /\ hist.calls < MaxCalls
    /\ \E q \in Requests :
         /\ call' = [call EXCEPT ![c] =
                    [pc |-> "lock", ticket |-> hist.calls + 1,
                     cmd_buf |-> q.cmd_buf, expect_rsp |-> q.expect_rsp,
                     timeout |-> q.timeout, ret |-> 0, info |-> EmptyContx]]
         /\ hist' = [hist EXCEPT !.calls = @ + 1,
                                 !.nulls = @ \/ q.expect_rsp = NullPtr]
    /\ UNCHANGED <<Ql_Write_Cmd, i2c_mutex, Ql_Command_sem, Ql_Command_Deal,
                   rt, Read_data_buf>>
    /\ UNCHANGED <<writerVars, picoVars, readerVars, validatorVars, auxVars>>

\* a lock that never blocks
WriteCmdFree_NoExclusion(c) == TRUE

\* pthread_mutex_lock(&Ql_Write_Cmd) can return
WriteCmdFree(c) == Ql_Write_Cmd = 0

\* line 166
LockWriteCmd(c) ==
    /\ call[c].pc = "lock"
    /\ WriteCmdFree(c)
    /\ Ql_Write_Cmd' = c
    /\ call' = [call EXCEPT ![c].pc = "post"]
    /\ UNCHANGED <<i2c_mutex, Ql_Command_sem, Ql_Command_Deal, rt,
                   Read_data_buf, hist>>
    /\ UNCHANGED <<writerVars, picoVars, readerVars, validatorVars, auxVars>>

\* a call that always waits for a response
FireAndForget_Never(c) == FALSE

\* line 168: if (expect_rsp == NULL)
FireAndForget(c) == call[c].expect_rsp = NullPtr

\* lines 167-172: sem_post, then the fire-and-forget return for a NULL
\* expect_rsp
PostSem(c) ==
    /\ call[c].pc = "post"
    /\ Ql_Command_sem' = Ql_Command_sem + 1
    /\ hist' = [hist EXCEPT !.sent = 0, !.sigq =
                  Append(@, [ticket |-> call[c].ticket,
                             cmd |-> call[c].cmd_buf,
                             expect |-> call[c].expect_rsp])]
    /\ IF FireAndForget(c)
       THEN /\ Ql_Write_Cmd' = 0
            /\ call' = [call EXCEPT ![c].pc = "ret", ![c].ret = 0]
       ELSE /\ call' = [call EXCEPT ![c].pc = "cpy_cmd"]
            /\ UNCHANGED Ql_Write_Cmd
    /\ UNCHANGED <<i2c_mutex, Ql_Command_Deal, rt, Read_data_buf>>
    /\ UNCHANGED <<writerVars, picoVars, readerVars, validatorVars, auxVars>>

\* line 173: memcpy(Ql_Command_Deal.cmd_buf, cmd_buf, strlen(cmd_buf))
CopyCmd(c) ==
    /\ call[c].pc = "cpy_cmd"
    /\ Ql_Command_Deal' = [Ql_Command_Deal EXCEPT
                             !.cmd_buf = Overlay(@, call[c].cmd_buf)]
    /\ hist' = [hist EXCEPT !.cmd_ticket = call[c].ticket]
    /\ call' = [call EXCEPT ![c].pc = "cpy_rsp"]
    /\ UNCHANGED <<Ql_Write_Cmd, i2c_mutex, Ql_Command_sem, rt, Read_data_buf>>
    /\ UNCHANGED <<writerVars, picoVars, readerVars, validatorVars, auxVars>>

\* line 174: memcpy(Ql_Command_Deal.ex_rsp_buf, expect_rsp, strlen(expect_rsp))
CopyExpect(c) ==
    /\ call[c].pc = "cpy_rsp"
    /\ Ql_Command_Deal' = [Ql_Command_Deal EXCEPT
                             !.ex_rsp_buf = Overlay(@, call[c].expect_rsp)]
    /\ call' = [call EXCEPT ![c].pc = "set_retry"]
    /\ UNCHANGED <<Ql_Write_Cmd, i2c_mutex, Ql_Command_sem, rt, Read_data_buf,
                   hist>>
    /\ UNCHANGED <<writerVars, picoVars, readerVars, validatorVars, auxVars>>

\* line 175: the int timeout is stored in the uint8_t retry_time
SetRetry(c) ==
    /\ call[c].pc = "set_retry"
    /\ Ql_Command_Deal' = [Ql_Command_Deal EXCEPT
                             !.retry_time = call[c].timeout % 256]
    /\ call' = [call EXCEPT ![c].pc = "set_flag"]
    /\ UNCHANGED <<Ql_Write_Cmd, i2c_mutex, Ql_Command_sem, rt, Read_data_buf,
                   hist>>
    /\ UNCHANGED <<writerVars, picoVars, readerVars, validatorVars, auxVars>>

\* line 176
SetWaiting(c) ==
    /\ call[c].pc = "set_flag"
    /\ Ql_Command_Deal' = [Ql_Command_Deal EXCEPT !.get_rsp_flag = WAITING]
    /\ call' = [call EXCEPT ![c].pc = "wait"]
    /\ UNCHANGED <<Ql_Write_Cmd, i2c_mutex, Ql_Command_sem, rt, Read_data_buf,
                   hist>>
    /\ UNCHANGED <<writerVars, picoVars, readerVars, validatorVars, auxVars>>

\* lines 178-181: the polling loop ends when the flag is no longer WAITING
LeaveWait(c) ==
    /\ call[c].pc = "wait"
    /\ Ql_Command_Deal.get_rsp_flag # WAITING
    /\ call' = [call EXCEPT ![c].pc = "chk"]
    /\ UNCHANGED <<Ql_Write_Cmd, i2c_mutex, Ql_Command_sem, Ql_Command_Deal,
                   rt, Read_data_buf, hist>>
    /\ UNCHANGED <<writerVars, picoVars, readerVars, validatorVars, auxVars>>

\* lines 182-190: the flag is read again; NOGET unlocks and returns -1,
\* anything else copies cmd_par to the caller's info
CheckFlag(c) ==
    /\ call[c].pc = "chk"
    /\ IF Ql_Command_Deal.get_rsp_flag = NOGET
       THEN /\ Ql_Write_Cmd' = 0
            /\ call' = [call EXCEPT ![c].pc = "ret", ![c].ret = -1]
       ELSE /\ call' = [call EXCEPT ![c].pc = "clr",
                                    ![c].info = Ql_Command_Deal.cmd_par]
            /\ UNCHANGED Ql_Write_Cmd
    /\ UNCHANGED <<i2c_mutex, Ql_Command_sem, Ql_Command_Deal, rt,
                   Read_data_buf, hist>>
    /\ UNCHANGED <<writerVars, picoVars, readerVars, validatorVars, auxVars>>

\* line 191: memset(Ql_Command_Deal.rsp_buf, 0, sizeof(rsp_buf))
ClearRspBuf(c) ==
    /\ call[c].pc = "clr"
    /\ Ql_Command_Deal' = [Ql_Command_Deal EXCEPT !.rsp_buf = <<>>]
    /\ call' = [call EXCEPT ![c].pc = "unlock"]
    /\ UNCHANGED <<Ql_Write_Cmd, i2c_mutex, Ql_Command_sem, rt, Read_data_buf,
                   hist>>
    /\ UNCHANGED <<writerVars, picoVars, readerVars, validatorVars, auxVars>>

\* lines 192-193: unlock Ql_Write_Cmd, return 0
UnlockAndReturn(c) ==
    /\ call[c].pc = "unlock"
    /\ Ql_Write_Cmd' = 0
    /\ call' = [call EXCEPT ![c].pc = "ret", ![c].ret = 0]
    /\ UNCHANGED <<i2c_mutex, Ql_Command_sem, Ql_Command_Deal, rt,
                   Read_data_buf, hist>>
    /\ UNCHANGED <<writerVars, picoVars, readerVars, validatorVars, auxVars>>

(***************************************************************************)
(* Read_Thread (i2c_adapt.c:24-146), one action per step                   *)
(***************************************************************************)
\* a counter that also counts the cycles whose Read_Data failed
EndOfCycle_CountsErrors(r, data_length) ==
    IF data_length > 0 THEN [r EXCEPT !.wake_flag = 0]
    ELSE IF r.wake_flag + 1 >= WAKE_POLLS THEN [r EXCEPT !.wake_flag = 0]
    ELSE [r EXCEPT !.wake_flag = @ + 1]

\* lines 126-127, 129-141: the end of a cycle for a Read_Data result
EndOfCycle(r, data_length) ==
    IF data_length > 0 THEN [r EXCEPT !.wake_flag = 0]
    ELSE IF data_length = -1 THEN r
    ELSE IF r.wake_flag + 1 >= WAKE_POLLS THEN [r EXCEPT !.wake_flag = 0]
    ELSE [r EXCEPT !.wake_flag = @ + 1]

\* lines 36-41: lock i2c_mutex, sem_trywait; a signal starts a request
RT_Begin ==
    /\ rt.pc = "lock"
    /\ i2c_mutex = "free"
    /\ i2c_mutex' = "Read_Thread"
    /\ IF Ql_Command_sem > 0
       THEN /\ Ql_Command_sem' = Ql_Command_sem - 1
            /\ rt' = [rt EXCEPT !.pc = "write", !.write_flag = 1,
                                !.retry_time = 0]
            /\ hist' = [hist EXCEPT !.cur_sig = Head(hist.sigq),
                                    !.sigq = Tail(@)]
       ELSE /\ rt' = [rt EXCEPT !.pc = "read"]
            /\ UNCHANGED <<Ql_Command_sem, hist>>
    /\ UNCHANGED <<Ql_Write_Cmd, Ql_Command_Deal, Read_data_buf, call>>
    /\ UNCHANGED <<writerVars, picoVars, readerVars, validatorVars, auxVars>>

\* lines 42-48: one call Write_Data(i2c_fd, cmd_buf, strlen(cmd_buf)) of the
\* do-while loop; it returns 0, or -1 when the probe and Recovery_I2C fail
RT_Write ==
    /\ rt.pc = "write"
    /\ \E ret \in {0, -1} :
         IF ret = 0
         THEN /\ rt' = [rt EXCEPT !.pc = "read"]
              /\ hist' = [hist EXCEPT !.sent = @ + 1, !.tx =
                            [bytes |-> Ql_Command_Deal.cmd_buf,
                             cmd_ticket |-> hist.cmd_ticket,
                             sig |-> hist.cur_sig]]
         ELSE /\ rt' = [rt EXCEPT !.pc = "write_again"]
              /\ UNCHANGED hist
    /\ UNCHANGED <<Ql_Write_Cmd, i2c_mutex, Ql_Command_sem, Ql_Command_Deal,
                   Read_data_buf, call>>
    /\ UNCHANGED <<writerVars, picoVars, readerVars, validatorVars, auxVars>>

\* line 45: while (ret != 0) after a failed Write_Data
RT_WriteAgain ==
    /\ rt.pc = "write_again"
    /\ rt' = [rt EXCEPT !.pc = "write"]
    /\ UNCHANGED <<Ql_Write_Cmd, i2c_mutex, Ql_Command_sem, Ql_Command_Deal,
                   Read_data_buf, call, hist>>
    /\ UNCHANGED <<writerVars, picoVars, readerVars, validatorVars, auxVars>>

\* lines 59-75: a stored fragment is completed with the new data up to its
\* first "\n" and validated, whatever it starts with
HalfBlock(deal, r, buf) ==
    IF r.half_rsp_flag = 0 THEN [deal |-> deal, r |-> r, got |-> FALSE]
    ELSE TheValue({
       IF di.ret # 0
       THEN [deal |-> deal, r |-> [r EXCEPT !.half_rsp_flag = 0],
             got |-> FALSE]
       ELSE TheValue({
          IF gp.err = No_Error
          THEN [deal |-> [deal EXCEPT !.rsp_buf = deal.rsp_buf \o di.des,
                                      !.cmd_par = gp.contx,
                                      !.get_rsp_flag = GET],
                r |-> [r EXCEPT !.write_flag = 0, !.retry_time = 0,
                                !.half_rsp_flag = 0],
                got |-> TRUE]
          ELSE [deal |-> [deal EXCEPT !.rsp_buf = deal.rsp_buf \o di.des,
                                      !.cmd_par = gp.contx],
                r |-> [r EXCEPT !.half_rsp_flag = 0],
                got |-> FALSE] :
            gp \in {Ql_Command_Get_Param(deal.rsp_buf \o di.des,
                                         deal.cmd_par, 0)}}) :
         di \in {data_interception(buf, <<>>)}})

\* a poller that matches every drained buffer
Examines_Always(r, data_length) == data_length > 0

\* lines 52 and 56: drained data is matched against the request only while
\* write_flag is set
Examines(r, data_length) == data_length > 0 /\ r.write_flag # 0

\* lines 50-75, and the end of the cycle when the data is not matched
\* against a request: Read_Data returns -1, 0 or the drained length
RT_Read ==
    /\ rt.pc = "read"
    /\ \E data_length \in {-1} \cup {Len(d) : d \in Drains}
                           \cup {n \in {0} : rt.wake_flag < MaxIdlePolls} :
       \E d \in {x \in Drains \cup {<<>>} :
                   Len(x) = (IF data_length > 0 THEN data_length ELSE 0)} :
         IF Examines(rt, data_length)
         THEN \E h \in {HalfBlock(Ql_Command_Deal, rt, d)} :
                 /\ hist.polls < MaxCandidates
                 /\ Ql_Command_Deal' = h.deal
                 /\ rt' = [h.r EXCEPT !.pc = "main",
                                      !.data_length = data_length]
                 /\ Read_data_buf' = d
                 /\ hist' = IF h.got
                            THEN [hist EXCEPT !.polls = @ + 1, !.get =
                                    [line |-> h.deal.rsp_buf, half |-> TRUE,
                                     ticket |-> hist.cmd_ticket,
                                     was |-> Ql_Command_Deal.get_rsp_flag,
                                     sem |-> Ql_Command_sem]]
                            ELSE [hist EXCEPT !.polls = @ + 1]
                 /\ UNCHANGED i2c_mutex
         ELSE /\ rt' = [EndOfCycle(rt, data_length) EXCEPT !.pc = "lock"]
              /\ i2c_mutex' = "free"
              /\ UNCHANGED <<Ql_Command_Deal, Read_data_buf, hist>>
    /\ UNCHANGED <<Ql_Write_Cmd, Ql_Command_sem, call>>
    /\ UNCHANGED <<writerVars, picoVars, readerVars, validatorVars, auxVars>>

\* lines 76-118: the first occurrence of the expected prefix is cut at its
\* first "\n" and validated; a prefix without a line end and data without
\* "\r\n" are stored as a fragment; any other data uses up one retry
MainBlock(deal, r, buf) ==
    TheValue({
    IF p # 0
    THEN TheValue({
         IF di.ret = 0
         THEN TheValue({
              IF gp.err = No_Error
              THEN [deal |-> [deal EXCEPT !.rsp_buf = di.des,
                                          !.cmd_par = gp.contx,
                                          !.get_rsp_flag = GET],
                    r |-> [r EXCEPT !.write_flag = 0, !.retry_time = 0],
                    got |-> TRUE]
              ELSE [deal |-> [deal EXCEPT !.rsp_buf = di.des,
                                          !.cmd_par = gp.contx],
                    r |-> r, got |-> FALSE] :
                gp \in {Ql_Command_Get_Param(di.des, deal.cmd_par, 0)}})
         ELSE [deal |-> [deal EXCEPT
                           !.rsp_buf = Overlay(@, From(buf, p))],
               r |-> [r EXCEPT !.half_rsp_flag = 1], got |-> FALSE] :
           di \in {data_interception(From(buf, p), deal.rsp_buf)}})
    ELSE IF StrStr(buf, <<13, 10>>) = 0
    THEN [deal |-> [deal EXCEPT !.rsp_buf = Overlay(@, buf)],
          r |-> [r EXCEPT !.half_rsp_flag = 1], got |-> FALSE]
    ELSE IF r.retry_time + 1 < deal.retry_time
    THEN [deal |-> deal, r |-> [r EXCEPT !.retry_time = @ + 1],
          got |-> FALSE]
    ELSE [deal |-> [deal EXCEPT !.get_rsp_flag = NOGET],
          r |-> [r EXCEPT !.write_flag = 0, !.retry_time = 0],
          got |-> FALSE] :
      p \in {StrStr(buf, deal.ex_rsp_buf)}})

\* lines 76-127 and 142: the main block, then wake_flag = 0, the drain
\* buffer is cleared and i2c_mutex unlocked
RT_Main ==
    /\ rt.pc = "main"
    /\ \E m \in {MainBlock(Ql_Command_Deal, rt, Read_data_buf)} :
          /\ Ql_Command_Deal' = m.deal
          /\ rt' = [EndOfCycle(m.r, rt.data_length) EXCEPT
                      !.pc = "lock", !.data_length = 0]
          /\ hist' = IF m.got
                     THEN [hist EXCEPT !.get =
                             [line |-> m.deal.rsp_buf, half |-> FALSE,
                              ticket |-> hist.cmd_ticket,
                              was |-> Ql_Command_Deal.get_rsp_flag,
                              sem |-> Ql_Command_sem]]
                     ELSE hist
    /\ Read_data_buf' = <<>>
    /\ i2c_mutex' = "free"
    /\ UNCHANGED <<Ql_Write_Cmd, Ql_Command_sem, call>>
    /\ UNCHANGED <<writerVars, picoVars, readerVars, validatorVars, auxVars>>

CallerStep(c) ==
    \/ Call(c)
    \/ LockWriteCmd(c)
    \/ PostSem(c)
    \/ CopyCmd(c)
    \/ CopyExpect(c)
    \/ SetRetry(c)
    \/ SetWaiting(c)
    \/ LeaveWait(c)
    \/ CheckFlag(c)
    \/ ClearRspBuf(c)
    \/ UnlockAndReturn(c)

PollerStep ==
    \/ RT_Begin
    \/ RT_Write
    \/ RT_WriteAgain
    \/ RT_Read
    \/ RT_Main

Init ==
    InitDemo /\ InitWriter /\ InitPico /\ InitReader /\ InitValidator
    /\ InitAux

Next ==
    \/ \E c \in Callers : CallerStep(c)
    \/ PollerStep

Spec == Init /\ [][Next]_vars

\* pthread scheduling: every thread that can take a step eventually does
FairSpec ==
    /\ Init /\ [][Next]_vars
    /\ WF_vars(PollerStep)
    /\ \A c \in Callers : WF_vars(CallerStep(c))

(***************************************************************************)
(* Read_Thread without requests and Log_Thread, the two threads main       *)
(* starts (i2c_adapt.c:243-251), sharing i2c_mutex                         *)
(***************************************************************************)
\* lines 135-139: the cycle in which Ql_Wake_I2C(i2c_fd) is called
Wakes(r, data_length) ==
    /\ ~(data_length > 0)
    /\ data_length # -1
    /\ r.wake_flag + 1 >= WAKE_POLLS

\* i2c_write.c:200-201: Write_Data(i2c_fd, &dummy_data, 1) with dummy_data 0
Ql_Wake_I2C_Data == <<0>>

\* lines 50-143 in a cycle with write_flag clear: Read_Data returns -1, 0 or
\* a drained length, the wake-up counter is reset, kept or advanced, and
\* i2c_mutex is released
RT_Idle ==
    /\ rt.pc = "read"
    /\ rt.write_flag = 0
    /\ \E data_length \in {-1, 0} \cup {Len(d) : d \in Drains} :
         /\ rt' = [EndOfCycle(rt, data_length) EXCEPT !.pc = "lock"]
         /\ wk' = [ran |-> TRUE, len |-> data_length,
                   before |-> rt.wake_flag,
                   woke |-> Wakes(rt, data_length),
                   sent |-> IF Wakes(rt, data_length)
                            THEN Ql_Wake_I2C_Data ELSE <<>>]
    /\ i2c_mutex' = "free"
    /\ UNCHANGED <<Ql_Write_Cmd, Ql_Command_sem, Ql_Command_Deal,
                   Read_data_buf, call, hist, lt, cd>>
    /\ UNCHANGED <<writerVars, picoVars, readerVars, validatorVars>>

\* lines 155-163: system("mkdir -p ...") fails and the thread returns -1, or
\* the log file is created
L_Start ==
    /\ lt.pc = "start"
    /\ \E made \in BOOLEAN :
         lt' = IF made THEN [lt EXCEPT !.pc = "lock"]
               ELSE [pc |-> "returned", ret |-> -1]
    /\ UNCHANGED <<demoVars, writerVars, picoVars, readerVars, validatorVars,
                   wk, cd>>

\* line 167: pthread_mutex_lock(&i2c_mutex)
L_Lock ==
    /\ lt.pc = "lock"
    /\ i2c_mutex = "free"
    /\ i2c_mutex' = "Log_Thread"
    /\ lt' = [lt EXCEPT !.pc = "stat"]
    /\ UNCHANGED <<Ql_Write_Cmd, Ql_Command_sem, Ql_Command_Deal, rt,
                   Read_data_buf, call, hist, wk, cd>>
    /\ UNCHANGED <<writerVars, picoVars, readerVars, validatorVars>>

\* lines 168-192: stat of the log file; when it fails the file is opened
\* with O_CREAT and stat is called again, and a second failure returns -1
\* from the thread; otherwise the file is reopened or rotated as needed
L_Stat ==
    /\ lt.pc = "stat"
    /\ \E ret1, ret2 \in {0, -1} :
         lt' = IF ret1 = -1 /\ ret2 = -1
               THEN [pc |-> "returned", ret |-> -1]
               ELSE [lt EXCEPT !.pc = "unlock"]
    /\ UNCHANGED <<demoVars, writerVars, picoVars, readerVars, validatorVars,
                   wk, cd>>

\* lines 193-194: pthread_mutex_unlock(&i2c_mutex); sleep(10)
L_Unlock ==
    /\ lt.pc = "unlock"
    /\ i2c_mutex' = "free"
    /\ lt' = [lt EXCEPT !.pc = "lock"]
    /\ UNCHANGED <<Ql_Write_Cmd, Ql_Command_sem, Ql_Command_Deal, rt,
                   Read_data_buf, call, hist, wk, cd>>
    /\ UNCHANGED <<writerVars, picoVars, readerVars, validatorVars>>

NextThreads ==
    \/ RT_Begin
    \/ RT_Idle
    \/ L_Start
    \/ L_Lock
    \/ L_Stat
    \/ L_Unlock

SpecThreads == Init /\ [][NextThreads]_vars

\* C36: the bus lock is always given back: Read_Thread does not hold
\* i2c_mutex when it begins a cycle, and Log_Thread does not hold it after
\* it has returned
C36_LockGivenBack ==
    /\ rt.pc = "lock" => i2c_mutex # "Read_Thread"
    /\ lt.pc = "returned" => i2c_mutex # "Log_Thread"

\* C38: at the end of every poller cycle wake_flag is in 0..29; a cycle that
\* drained data leaves it 0, a cycle whose read failed leaves it as it was,
\* a cycle with no data advances it by one, and Ql_Wake_I2C, a write of the
\* one byte 0x00, is called exactly in the cycle where the count reaches
\* 30, after which the count is 0
C38_WakeCounter ==
    /\ rt.wake_flag \in 0..(WAKE_POLLS - 1)
    /\ (wk.ran /\ rt.pc = "lock") =>
         /\ wk.len > 0 => rt.wake_flag = 0 /\ ~wk.woke
         /\ wk.len = -1 => rt.wake_flag = wk.before /\ ~wk.woke
         /\ wk.len = 0 =>
              /\ wk.woke <=> (wk.before + 1 = WAKE_POLLS)
              /\ rt.wake_flag = IF wk.woke THEN 0 ELSE wk.before + 1
         /\ wk.sent = IF wk.woke THEN <<0>> ELSE <<>>

\* the thirtieth cycle in a row without data has called Ql_Wake_I2C
C38_Witness ==
    /\ wk.ran /\ rt.pc = "lock"
    /\ wk.len = 0 /\ wk.before = WAKE_POLLS - 1
    /\ wk.woke /\ wk.sent = <<0>>
    /\ rt.wake_flag = 0

(***************************************************************************)
(* Properties of the coordinator and the poller                            *)
(***************************************************************************)
\* caller c holds Ql_Write_Cmd for a call with a non-NULL expected prefix
InFlight(c) ==
    call[c].pc \in {"post", "cpy_cmd", "cpy_rsp", "set_retry", "set_flag",
                    "wait", "chk", "clr", "unlock"}

\* caller c has set WAITING and not yet returned
IsWaiting(c) == call[c].pc \in {"wait", "chk", "clr", "unlock"}

\* caller c is inside a call it has not returned from
Active(c) == call[c].pc \notin {"idle", "ret"}

\* C1: at most one request is Waiting, and while one caller is in flight
\* (holds the one-in-flight lock) no other caller's pending command has been
\* published to cmd_buf or transmitted by the poller.
C1_OneInFlight ==
    /\ Cardinality({c \in Callers : IsWaiting(c)}) <= 1
    /\ \A c1, c2 \in Callers :
         (c1 # c2 /\ InFlight(c1) /\ Active(c2)) =>
            /\ ~InFlight(c2)
            /\ hist.cmd_ticket # call[c2].ticket
            /\ hist.tx.cmd_ticket # call[c2].ticket

\* one caller is Waiting while another one, also with a non-NULL prefix, is
\* blocked on the lock
C1_Witness ==
    \E c1, c2 \in Callers :
        /\ c1 # c2
        /\ call[c1].pc = "wait"
        /\ Ql_Command_Deal.get_rsp_flag = WAITING
        /\ call[c2].pc = "lock"
        /\ call[c2].expect_rsp # NullPtr

\* the parameter context parsed from a line alone
Parsed(line) == Ql_Command_Get_Param(line, EmptyContx, 0)

\* two contexts hold the same parameters 0..param_num and checksum
SameParams(a, b) ==
    /\ a.param_num = b.param_num
    /\ a.checksum = b.checksum
    /\ ParamList(a, a.param_num) = ParamList(b, b.param_num)

\* C2: a call with a non-NULL prefix returns 0 only if the line validated
\* when GET was set begins with the caller's expected prefix, the validator
\* accepts it, and the caller's info holds the parameters of that line.
C2_SuccessSound ==
    \A c \in Callers :
        (call[c].pc = "ret" /\ call[c].ret = 0 /\ call[c].expect_rsp # NullPtr)
        => /\ HasPrefix(hist.get.line, call[c].expect_rsp)
           /\ Parsed(hist.get.line).err = No_Error
           /\ SameParams(call[c].info, Parsed(hist.get.line).contx)

\* C2, the half-response path alone: a reassembled line that sets GET starts
\* with the expected prefix
C2_HalfPathSound ==
    \A c \in Callers :
        (call[c].pc = "ret" /\ call[c].ret = 0 /\ call[c].expect_rsp # NullPtr
         /\ hist.get.half)
        => HasPrefix(hist.get.line, call[c].expect_rsp)

\* C3: if no examined data is a checksum-valid frame with the expected
\* prefix, every Waiting call eventually returns -1.
C3_TimeoutGuaranteed ==
    [](Read_data_buf \in {<<>>, FrameAck2C}) =>
        \A c \in Callers :
            [](call[c].pc = "wait" =>
                  <>(call[c].pc = "ret" /\ call[c].ret = -1))

\* the first call of a session is Waiting for "$PMTK220,1000" / "$PMTK001",
\* its command has been transmitted, no candidate or fragment is pending, and
\* the poller is about to examine the drained buffer buf (the poller's step
\* from such a state is the one that changes rt)
Scenario1Poll(buf) ==
    /\ rt.pc = "main"
    /\ Read_data_buf = buf
    /\ rt.write_flag = 1
    /\ rt.half_rsp_flag = 0
    /\ Ql_Command_Deal.rsp_buf = <<>>
    /\ Ql_Command_Deal.get_rsp_flag = WAITING
    /\ Ql_Command_sem = 0
    /\ \E c \in Callers :
         /\ call[c].pc = "wait"
         /\ call[c].ticket = 1
         /\ call[c].cmd_buf = CmdLong
         /\ call[c].expect_rsp = PfxAck
         /\ hist.tx.cmd_ticket = 1
         /\ hist.tx.bytes = CmdLong

\* "PMTK001", "220", "3"
Scenario1ListClaimed == <<<<80, 77, 84, 75, 48, 48, 49>>, <<50, 50, 48>>, <<51>>>>
\* "$PMTK001", "220", "3", "30\r\n"
Scenario1List ==
    <<<<36, 80, 77, 84, 75, 48, 48, 49>>, <<50, 50, 48>>, <<51>>,
      <<51, 48, 13, 10>>>>

\* C4 as claimed: draining "$PMTK001,220,3*2C\r\n" makes the request GET with
\* the parameter list ["PMTK001","220","3"].
C4_Scenario1Claimed ==
    [][(Scenario1Poll(FrameAck2C) /\ rt' # rt) =>
         /\ Ql_Command_Deal'.get_rsp_flag = GET
         /\ ParamList(Ql_Command_Deal'.cmd_par, 2) = Scenario1ListClaimed]_vars

\* the first call of the session returned after the poller matched FrameAck
\* on the main path
Scenario1Returned(c) ==
    /\ call[c].pc = "ret"
    /\ call[c].ticket = 1
    /\ call[c].cmd_buf = CmdLong
    /\ call[c].expect_rsp = PfxAck
    /\ hist.get.ticket = 1
    /\ hist.get.was = WAITING
    /\ hist.get.sem = 0
    /\ hist.get.line = FrameAck
    /\ ~hist.get.half

\* C4 as amended: draining "$PMTK001,220,3*30\r\n" (checksum 30) in the
\* scenario makes the request GET in that cycle with param_num 3 and
\* param[0..3] = ["$PMTK001","220","3","30\r\n"], and the call then returns 0
\* with that list in the caller's info.
C4_Scenario1 ==
    /\ [][(Scenario1Poll(FrameAck) /\ rt' # rt) =>
            /\ Ql_Command_Deal'.get_rsp_flag = GET
            /\ Ql_Command_Deal'.cmd_par.param_num = 3
            /\ ParamList(Ql_Command_Deal'.cmd_par, 3) = Scenario1List]_vars
    /\ [](\A c \in Callers :
            Scenario1Returned(c) =>
               /\ call[c].ret = 0
               /\ call[c].info.param_num = 3
               /\ ParamList(call[c].info, 3) = Scenario1List)

\* the scenario's call has returned 0 with the four parameters
C4_Witness ==
    \E c \in Callers :
        /\ Scenario1Returned(c)
        /\ hist.tx.bytes = CmdLong
        /\ call[c].ret = 0
        /\ ParamList(call[c].info, 3) = Scenario1List

\* C5: whenever get_rsp_flag changes from WAITING to GET or NOGET, the
\* poller has completed Write_Data of the command published by the caller
\* that set WAITING.
C5_DecidedAfterSent ==
    [][(/\ Ql_Command_Deal.get_rsp_flag = WAITING
        /\ Ql_Command_Deal'.get_rsp_flag \in {GET, NOGET})
       => \E c \in Callers :
            /\ Ql_Write_Cmd = c
            /\ hist.tx.cmd_ticket = call[c].ticket]_vars

\* C6: what the poller transmits for a consumed signal is exactly the
\* cmd_buf argument of the call that posted it, and while it matches for
\* that signal ex_rsp_buf is exactly that call's expect_rsp.
C6_PublishedBeforeSignal ==
    /\ (hist.tx.sig.ticket # 0 /\ hist.tx.sig.expect # NullPtr)
          => hist.tx.bytes = hist.tx.sig.cmd
    /\ (rt.pc = "main" /\ rt.write_flag = 1
        /\ hist.cur_sig.expect # NullPtr)
          => Ql_Command_Deal.ex_rsp_buf = hist.cur_sig.expect

\* C12: when Write_Data of a pending command has failed (the probe and
\* Recovery_I2C failed), the waiting caller eventually returns -1 with the
\* one-in-flight lock released, unless the bus answers again and Write_Data
\* returns 0.
C12_RecoveryFailureSurfaces ==
    \A c \in Callers :
        [](call[c].pc = "wait" /\ rt.pc = "write_again"
             => <>(\/ call[c].pc = "ret" /\ call[c].ret = -1
                                        /\ Ql_Write_Cmd # c
                   \/ rt.pc = "read"))

\* the poller is about to match the drained data for the waiting caller c,
\* whose prefix is published, and the data is one checksum-valid frame that
\* starts with this prefix
ValidFrameDrained(c) ==
    /\ rt.pc = "main"
    /\ rt.write_flag = 1
    /\ Ql_Write_Cmd = c
    /\ call[c].pc = "wait"
    /\ Ql_Command_Deal.get_rsp_flag = WAITING
    /\ Ql_Command_Deal.ex_rsp_buf = call[c].expect_rsp
    /\ HasPrefix(Read_data_buf, call[c].expect_rsp)
    /\ Parsed(Read_data_buf).err = No_Error

\* C23: whatever earlier cycles left in rsp_buf (a rejected candidate, a
\* stored fragment, the line of an earlier request), a drained valid frame
\* with the expected prefix is validated on exactly its own bytes and sets
\* GET.
C23_NoResidue ==
    [][\A c \in Callers :
         (ValidFrameDrained(c) /\ rt' # rt) =>
            /\ Ql_Command_Deal'.get_rsp_flag = GET
            /\ hist'.get.line = Read_data_buf]_vars

\* the line that starts at position p of buf and ends at the first "\n"
\* after it; <<>> when there is none
LineAt(buf, p) ==
    TheValue({IF di.ret = 0 THEN di.des ELSE <<>> :
                di \in {data_interception(From(buf, p), <<>>)}})

\* the positions of buf where a checksum-valid frame with the prefix starts
ValidAt(buf, prefix) ==
    {p \in 1..Len(buf) :
       /\ HasPrefix(From(buf, p), prefix)
       /\ LineAt(buf, p) # <<>>
       /\ Parsed(LineAt(buf, p)).err = No_Error}

\* the first checksum-valid frame with the prefix in buf
FirstValid(buf, prefix) ==
    LineAt(buf, CHOOSE p \in ValidAt(buf, prefix) :
                   \A q \in ValidAt(buf, prefix) : p <= q)

\* C24: when the data drained in one cycle holds a checksum-valid frame with
\* the expected prefix, the request becomes GET in that cycle with the
\* parameters of the first valid one, even when an earlier occurrence of
\* the prefix in the same data fails validation. (rsp_buf is empty here, so
\* that no residue of an earlier cycle is involved.)
C24_FirstValidWins ==
    [][\A c \in Callers :
         (/\ rt.pc = "main" /\ rt.write_flag = 1
          /\ Ql_Write_Cmd = c /\ call[c].pc = "wait"
          /\ Ql_Command_Deal.get_rsp_flag = WAITING
          /\ Ql_Command_Deal.ex_rsp_buf = call[c].expect_rsp
          /\ Ql_Command_Deal.rsp_buf = <<>>
          /\ ValidAt(Read_data_buf, call[c].expect_rsp) # {}
          /\ rt' # rt) =>
            /\ Ql_Command_Deal'.get_rsp_flag = GET
            /\ SameParams(Ql_Command_Deal'.cmd_par,
                          Parsed(FirstValid(Read_data_buf,
                                            call[c].expect_rsp)).contx)]_vars

\* C28: the poller sets NOGET for a waiting request with retry budget T only
\* in a cycle that brings the number of non-matching cycles since the
\* transmission to T, never earlier.
C28_RetryBudget ==
    [][\A c \in Callers :
         (/\ Ql_Write_Cmd = c /\ call[c].pc = "wait"
          /\ Ql_Command_Deal.get_rsp_flag = WAITING
          /\ Ql_Command_Deal'.get_rsp_flag = NOGET) =>
            rt.retry_time + 1 >= call[c].timeout]_vars

\* C28 for budgets that fit the 8-bit field
C28_SmallBudget ==
    [][\A c \in Callers :
         (/\ Ql_Write_Cmd = c /\ call[c].pc = "wait"
          /\ call[c].timeout < 256
          /\ Ql_Command_Deal.get_rsp_flag = WAITING
          /\ Ql_Command_Deal'.get_rsp_flag = NOGET) =>
            rt.retry_time + 1 = call[c].timeout]_vars

\* the flag is GET because the poller changed it from WAITING to GET
SetGetForRequest ==
    /\ Ql_Command_Deal.get_rsp_flag = GET
    /\ hist.get.line # <<>>
    /\ hist.get.was = WAITING

\* C29: get_rsp_flag is set to WAITING only by the caller that holds
\* Ql_Write_Cmd, leaves WAITING only by a step of the poller, and once the
\* poller has set GET it is not changed to NOGET, nor from NOGET to GET,
\* before a caller sets WAITING again.
C29_OneDirection ==
    [][/\ (Ql_Command_Deal.get_rsp_flag # WAITING
           /\ Ql_Command_Deal'.get_rsp_flag = WAITING) =>
             \E c \in Callers : /\ Ql_Write_Cmd = c
                                /\ call[c].pc = "set_flag"
                                /\ call'[c].pc = "wait"
       /\ (Ql_Command_Deal.get_rsp_flag = WAITING
           /\ Ql_Command_Deal'.get_rsp_flag # WAITING) => rt' # rt
       /\ SetGetForRequest => Ql_Command_Deal'.get_rsp_flag # NOGET
       /\ Ql_Command_Deal.get_rsp_flag = NOGET =>
             Ql_Command_Deal'.get_rsp_flag # GET]_vars

\* C29, one cycle: after the half-response block has set GET (and cleared
\* write_flag), the main block of the same cycle does not set NOGET.
C29_SameCycle ==
    [][(rt.pc = "main" /\ rt.write_flag = 0 /\ SetGetForRequest) =>
          Ql_Command_Deal'.get_rsp_flag # NOGET]_vars

\* C30: every cycle of Read_Thread goes on to Read_Data, after Write_Data
\* when a signal was pending and directly when none was, and no cycle ends
\* without having called Read_Data; a cycle with no
\* signal and write_flag clear ends after Read_Data and changes none of
\* get_rsp_flag, rsp_buf and cmd_par, whatever it drained.
C30_IdleCycle ==
    [][/\ (rt.pc = "lock" /\ rt' # rt) =>
             /\ rt'.pc \in {"write", "read"}
             /\ Ql_Command_sem = 0 =>
                   /\ rt'.pc = "read"
                   /\ rt'.write_flag = rt.write_flag
       /\ (rt.pc # "lock" /\ rt'.pc = "lock") => rt.pc \in {"read", "main"}
       /\ (rt.pc = "read" /\ rt.write_flag = 0 /\ rt' # rt) =>
             /\ rt'.pc = "lock"
             /\ Ql_Command_Deal'.get_rsp_flag = Ql_Command_Deal.get_rsp_flag
             /\ Ql_Command_Deal'.rsp_buf = Ql_Command_Deal.rsp_buf
             /\ Ql_Command_Deal'.cmd_par = Ql_Command_Deal.cmd_par]_vars

\* a cycle with no pending command has ended (it found nothing to drain,
\* which only such a cycle records in wake_flag while write_flag is clear)
\* after a request was decided NOGET with a rejected line left in rsp_buf
C30_Witness ==
    /\ rt.pc = "lock"
    /\ rt.write_flag = 0
    /\ rt.wake_flag = 1
    /\ Ql_Command_Deal.get_rsp_flag = NOGET
    /\ Ql_Command_Deal.rsp_buf # <<>>

\* C31: when the poller consumes a signal and starts a request, its retry
\* counter is 0, the half-response flag is clear and rsp_buf is empty; and
\* at the end of every cycle a clear write_flag comes with a clear
\* half_rsp_flag
C31_FreshStart ==
    [][/\ (rt.pc = "lock" /\ rt'.pc = "write")
            => /\ rt'.retry_time = 0
               /\ rt'.half_rsp_flag = 0
               /\ Ql_Command_Deal.rsp_buf = <<>>
       /\ (rt.pc # "lock" /\ rt'.pc = "lock" /\ rt'.write_flag = 0)
            => rt'.half_rsp_flag = 0]_vars

C33_ExactlyOnce ==
    [][~hist'.nulls =>
         /\ Ql_Command_sem' <= 1
         /\ \A c \in Callers :
              (call[c].pc # "ret" /\ call'[c].pc = "ret")
                => /\ hist.sent = 1
                   /\ hist.tx.sig.ticket = call[c].ticket
                   /\ hist.tx.bytes = call[c].cmd_buf]_vars

\* the count alone: one successful Write_Data between the post and the return
C33_OneWrite ==
    [][~hist'.nulls =>
         \A c \in Callers :
           (call[c].pc # "ret" /\ call'[c].pc = "ret") => hist.sent = 1]_vars

\* the semaphore alone
C33_SemAtMostOne == ~hist.nulls => Ql_Command_sem <= 1

\* C34: the fixed buffers never overrun: what has been copied into cmd_buf,
\* ex_rsp_buf and rsp_buf never extends beyond their 100 bytes
C34_NoOverrun ==
    /\ Len(Ql_Command_Deal.cmd_buf) <= BUF_SIZE
    /\ Len(Ql_Command_Deal.ex_rsp_buf) <= BUF_SIZE
    /\ Len(Ql_Command_Deal.rsp_buf) <= BUF_SIZE

\* C22, the lock alone: a caller that has returned does not hold
\* Ql_Write_Cmd.
C22_Unlocked ==
    \A c \in Callers : call[c].pc \in {"idle", "ret"} => Ql_Write_Cmd # c

\* C22: every return of Write_Data_and_Get_Rsp leaves Ql_Write_Cmd released
\* by the caller, and on the GET path rsp_buf is all zero when the lock is
\* released.
C22_ReleasedAndCleared ==
    [][\A c \in Callers :
         (call[c].pc # "ret" /\ call'[c].pc = "ret") =>
            /\ Ql_Write_Cmd' # c
            /\ call[c].pc = "unlock" => Ql_Command_Deal.rsp_buf = <<>>]_vars

(***************************************************************************)
(* Write_Data (i2c_write.c:51-155; write_data_to_lc76g in the Pico port    *)
(* has the same body), one action per bus transaction attempt              *)
(***************************************************************************)
\* the three sub-addresses of the module (i2c_register.h:5-7)
QL_CRCW_ADDR == 80
QL_RD_ADDR == 84
QL_WR_ADDR == 88

\* a recovery that reports the last sub-address that answers
Recovery_I2C_LastWins(p50, p54, p58) ==
    IF p58 THEN 2 ELSE IF p54 THEN 1 ELSE IF p50 THEN 0 ELSE -1

\* Recovery_I2C (i2c_read.c:24-45) for the outcomes of its three probes
Recovery_I2C(p50, p54, p58) ==
    IF p50 THEN 0 ELSE IF p54 THEN 1 ELSE IF p58 THEN 2 ELSE -1

\* the sub-addresses Recovery_I2C calls Write_Dummy_Addr with, in order:
\* each else-if is evaluated only when the conditions before it failed
RecoveryProbes(p50, p54, p58) ==
    IF p50 THEN <<QL_CRCW_ADDR>>
    ELSE IF p54 THEN <<QL_CRCW_ADDR, QL_RD_ADDR>>
    ELSE <<QL_CRCW_ADDR, QL_RD_ADDR, QL_WR_ADDR>>

\* one run of Recovery_I2C as the history records it
RecoveryRun(p50, p54, p58) ==
    [ran |-> TRUE, acks |-> <<p50, p54, p58>>,
     probed |-> RecoveryProbes(p50, p54, p58),
     ret |-> Recovery_I2C(p50, p54, p58)]

\* a call Write_Data(i2c_fd, data_buf, data_length); lines 53-57
WD_Call ==
    /\ wd.pc \in {"idle", "done"}
    /\ \E n \in 1..MaxPayload :
         wd' = [pc |-> "probe", i |-> 0, data_length |-> n,
                free_length |-> 0, data_length_temp |-> n,
                remain_flag |-> 0, ret |-> 0]
    /\ wh' = [rounds |-> 1, bursts |-> <<>>, exhausted |-> {}, zeros |-> 0,
              zero_seen |-> FALSE, recovered |-> FALSE]
    /\ UNCHANGED <<demoVars, picoVars, readerVars, validatorVars, auxVars>>

\* lines 63-77: probe 0x50; a failed probe runs Recovery_I2C, whose failure
\* returns -1; after RETRY_TIME failed probes the loop is left
WD_Probe ==
    /\ wd.pc = "probe"
    /\ \E ok \in BOOLEAN :
         IF ok
         THEN /\ wd' = [wd EXCEPT !.pc = "query", !.i = 0]
              /\ UNCHANGED wh
         ELSE \E p50, p54, p58 \in BOOLEAN :
              /\ wh' = [wh EXCEPT !.recovered = TRUE]
              /\ IF Recovery_I2C(p50, p54, p58) = -1
                 THEN wd' = [wd EXCEPT !.pc = "done", !.ret = -1]
                 ELSE IF wd.i + 1 < RETRY_TIME
                 THEN wd' = [wd EXCEPT !.i = @ + 1]
                 ELSE wd' = [wd EXCEPT !.pc = "query", !.i = 0]
    /\ UNCHANGED <<demoVars, picoVars, readerVars, validatorVars, auxVars>>

\* lines 79-88: Write_CW_Data(QL_CW_REG, QL_CW_LEN) asks for the free length
WD_Query ==
    /\ wd.pc = "query"
    /\ \E ok \in BOOLEAN :
         IF ok
         THEN /\ wd' = [wd EXCEPT !.pc = "rd_free", !.i = 0]
              /\ UNCHANGED wh
         ELSE IF wd.i + 1 < RETRY_TIME
         THEN /\ wd' = [wd EXCEPT !.i = @ + 1]
              /\ UNCHANGED wh
         ELSE /\ wd' = [wd EXCEPT !.pc = "rd_free", !.i = 0]
              /\ wh' = [wh EXCEPT !.exhausted = @ \cup {"query"}]
    /\ UNCHANGED <<demoVars, picoVars, readerVars, validatorVars, auxVars>>

\* lines 102-110: free_length is compared with data_length
Decide(w, free_length) ==
    IF free_length < w.data_length
    THEN [w EXCEPT !.free_length = free_length, !.remain_flag = 1,
                   !.data_length_temp = @ - free_length]
    ELSE [w EXCEPT !.free_length = free_length, !.remain_flag = 0]

\* lines 91-110: Read_RD_Data reads the free length; when every attempt
\* fails free_length keeps its value
WD_ReadFree ==
    /\ wd.pc = "rd_free"
    /\ \E ok \in BOOLEAN, f \in 0..MaxFree :
         IF ok
         THEN /\ wd' = [Decide(wd, f) EXCEPT !.pc = "cfg_len", !.i = 0]
              /\ wh' = [wh EXCEPT
                          !.zeros = IF f = 0 THEN @ + 1 ELSE 0,
                          !.zero_seen = @ \/ f = 0,
                          !.recovered = IF f = 0 THEN FALSE ELSE @]
         ELSE IF wd.i + 1 < RETRY_TIME
         THEN /\ wd' = [wd EXCEPT !.i = @ + 1]
              /\ UNCHANGED wh
         ELSE /\ wd' = [Decide(wd, wd.free_length) EXCEPT
                          !.pc = "cfg_len", !.i = 0]
              /\ wh' = [wh EXCEPT !.exhausted = @ \cup {"read"}]
    /\ UNCHANGED <<demoVars, picoVars, readerVars, validatorVars, auxVars>>

\* lines 115-122 and 135-142: Write_CW_Data(QL_WR_REG, length of the burst)
WD_ConfigLen ==
    /\ wd.pc = "cfg_len"
    /\ \E ok \in BOOLEAN :
         IF ok
         THEN /\ wd' = [wd EXCEPT !.pc = "payload", !.i = 0]
              /\ UNCHANGED wh
         ELSE IF wd.i + 1 < RETRY_TIME
         THEN /\ wd' = [wd EXCEPT !.i = @ + 1]
              /\ UNCHANGED wh
         ELSE /\ wd' = [wd EXCEPT !.pc = "payload", !.i = 0]
              /\ wh' = [wh EXCEPT !.exhausted = @ \cup {"cfg_len"}]
    /\ UNCHANGED <<demoVars, picoVars, readerVars, validatorVars, auxVars>>

\* lines 127 and 147: the bytes Write_WR_Data is given, as offset into
\* data_buf and length
Burst(w) ==
    IF w.remain_flag = 1
    THEN [off |-> 0, len |-> w.free_length]
    ELSE [off |-> w.data_length - w.data_length_temp,
          len |-> w.data_length_temp]

\* line 153-154: while (remain_flag), then return 0
AfterBurst(w) ==
    IF w.remain_flag = 1 THEN [w EXCEPT !.pc = "probe", !.i = 0]
    ELSE [w EXCEPT !.pc = "done", !.i = 0, !.ret = 0]

\* lines 125-131 and 145-154: Write_WR_Data sends the burst
WD_Payload ==
    /\ wd.pc = "payload"
    /\ wd.remain_flag = 1 => wh.rounds < MaxRounds
    /\ \E ok \in BOOLEAN :
         IF ok
         THEN /\ wd' = AfterBurst(wd)
              /\ wh' = [wh EXCEPT !.bursts = Append(@, Burst(wd)),
                                  !.rounds = @ + wd.remain_flag]
         ELSE IF wd.i + 1 < RETRY_TIME
         THEN /\ wd' = [wd EXCEPT !.i = @ + 1]
              /\ UNCHANGED wh
         ELSE /\ wd' = AfterBurst(wd)
              /\ wh' = [wh EXCEPT !.exhausted = @ \cup {"payload"},
                                  !.rounds = @ + wd.remain_flag]
    /\ UNCHANGED <<demoVars, picoVars, readerVars, validatorVars, auxVars>>

NextWriter ==
    \/ WD_Call
    \/ WD_Probe
    \/ WD_Query
    \/ WD_ReadFree
    \/ WD_ConfigLen
    \/ WD_Payload

SpecWriter == Init /\ [][NextWriter]_vars

(***************************************************************************)
(* Properties of the writer                                                *)
(***************************************************************************)
\* the bursts are consecutive non-empty ranges of the payload that start at
\* offset 0 and end at offset n
Contiguous(bursts, n) ==
    /\ bursts # <<>>
    /\ \A b \in 1..Len(bursts) :
         /\ bursts[b].len >= 1
         /\ bursts[b].off = IF b = 1 THEN 0
                            ELSE bursts[b - 1].off + bursts[b - 1].len
    /\ bursts[Len(bursts)].off + bursts[Len(bursts)].len = n

\* C8: when Write_Data has returned 0 after every bus operation succeeded
\* and every reported free space was at least 1, the bursts it sent are the
\* payload exactly once and in order.
C8_CompleteOrdered ==
    (wd.pc = "done" /\ wd.ret = 0 /\ wh.exhausted = {} /\ ~wh.zero_seen)
        => Contiguous(wh.bursts, wd.data_length)

\* C9: when a bus operation of Write_Data failed on all RETRY_TIME attempts,
\* Write_Data returns -1.
C9_FailureReported ==
    (wd.pc = "done" /\ wh.exhausted # {}) => wd.ret = -1

\* C10: after free space 0 was reported three times in a row, the writer
\* does not query the free space again unless it has run Recovery since.
C10_ZeroSpaceRecovers ==
    (wd.pc \in {"query", "rd_free"} /\ wh.zeros >= 3) => wh.recovered

\* C26, Write_Data: Recovery_I2C is run only after RETRY_TIME consecutive
\* failed probes of 0x50, not after a single failed probe.
C26_RecoveryAfterRetries ==
    [][(~wh.recovered /\ wh'.recovered) => wd.i + 1 >= RETRY_TIME]_vars

(***************************************************************************)
(* The Pico port: lc76g_send_command, lc76g_send_command_and_get_response, *)
(* lc76g_read_gps_data; one action per lock operation and per bus          *)
(* transaction attempt                                                     *)
(***************************************************************************)
\* a task calls an API function; lines 490-492, 507-509, 545-547 return
\* false for a missing argument
P_Call(t) ==
    /\ pt[t].pc \in {"idle", "done"}
    /\ pcalls < MaxPicoCalls
    /\ pcalls' = pcalls + 1
    /\ \E op \in Ops, valid \in BOOLEAN :
         pt' = [pt EXCEPT ![t] =
                  [op |-> op,
                   pc |-> IF ~valid THEN "done"
                          ELSE IF op = "send_command_and_get_response"
                          THEN "lock_w"
                          ELSE IF op = "send_command" THEN "send_lock"
                          ELSE "gps_lock",
                   i |-> 0, data_length |-> 0, data_buf |-> <<>>,
                   ok |-> FALSE, reads |-> 0, wtx |-> 0, found |-> FALSE,
                   ret |-> FALSE]]
    /\ UNCHANGED <<g_i2c_mutex, g_write_cmd_mutex, demoVars, writerVars, readerVars,
                   validatorVars, auxVars>>

\* line 511: mutex_enter_blocking(&g_write_cmd_mutex)
P_LockW(t) ==
    /\ pt[t].pc = "lock_w"
    /\ g_write_cmd_mutex = 0
    /\ g_write_cmd_mutex' = t
    /\ pt' = [pt EXCEPT ![t].pc = "send_lock"]
    /\ UNCHANGED <<g_i2c_mutex, pcalls, demoVars, writerVars, readerVars,
                   validatorVars, auxVars>>

\* line 494: mutex_enter_blocking(&g_i2c_mutex)
P_SendLock(t) ==
    /\ pt[t].pc = "send_lock"
    /\ g_i2c_mutex = 0
    /\ g_i2c_mutex' = t
    /\ pt' = [pt EXCEPT ![t].pc = "send_write", ![t].wtx = 0]
    /\ UNCHANGED <<g_write_cmd_mutex, pcalls, demoVars, writerVars, readerVars,
                   validatorVars, auxVars>>

\* line 495: one bus transaction of write_data_to_lc76g (lines 347-427),
\* after which it goes on or returns true or false
P_SendWrite(t) ==
    /\ pt[t].pc = "send_write"
    /\ \E then \in {"more", "true", "false"} :
         IF then = "more"
         THEN /\ pt[t].wtx + 1 < MaxWriteTx
              /\ pt' = [pt EXCEPT ![t].wtx = @ + 1]
         ELSE pt' = [pt EXCEPT ![t].wtx = @ + 1, ![t].pc = "send_unlock",
                               ![t].ok = (then = "true")]
    /\ UNCHANGED <<g_i2c_mutex, g_write_cmd_mutex, pcalls, demoVars,
                   writerVars, readerVars,
                   validatorVars, auxVars>>

\* line 496: mutex_exit(&g_i2c_mutex)
P_SendUnlock(t) ==
    /\ pt[t].pc = "send_unlock"
    /\ g_i2c_mutex' = 0
    /\ pt' = [pt EXCEPT ![t].pc = "send_ret"]
    /\ UNCHANGED <<g_write_cmd_mutex, pcalls, demoVars, writerVars, readerVars,
                   validatorVars, auxVars>>

\* lines 502 and 514-521: lc76g_send_command returns; a failed send ends
\* lc76g_send_command_and_get_response
P_SendRet(t) ==
    /\ pt[t].pc = "send_ret"
    /\ IF pt[t].op = "send_command"
       THEN /\ pt' = [pt EXCEPT ![t].pc = "done", ![t].ret = pt[t].ok]
            /\ UNCHANGED g_write_cmd_mutex
       ELSE IF ~pt[t].ok
       THEN /\ pt' = [pt EXCEPT ![t].pc = "done", ![t].ret = FALSE]
            /\ g_write_cmd_mutex' = 0
       ELSE /\ pt' = [pt EXCEPT ![t].pc = "loop", ![t].found = FALSE]
            /\ UNCHANGED g_write_cmd_mutex
    /\ UNCHANGED <<g_i2c_mutex, pcalls, demoVars, writerVars, readerVars,
                   validatorVars, auxVars>>

\* lines 523-525: until the timeout is reached read_data_from_lc76g is
\* called, without g_i2c_mutex
P_Loop(t) ==
    /\ pt[t].pc = "loop"
    /\ \E time_reached \in BOOLEAN :
         IF time_reached
         THEN pt' = [pt EXCEPT ![t].pc = "unlock_w"]
         ELSE /\ pt[t].reads < MaxPicoReads
              /\ pt' = [pt EXCEPT ![t].pc = "r_probe", ![t].i = 0,
                                  ![t].reads = @ + 1, ![t].data_buf = <<>>,
                                  ![t].data_length = 0]
    /\ UNCHANGED <<g_i2c_mutex, g_write_cmd_mutex, pcalls, demoVars,
                   writerVars, readerVars,
                   validatorVars, auxVars>>

\* where read_data_from_lc76g returns to
AfterRead(op) ==
    IF op = "send_command_and_get_response" THEN "match" ELSE "gps_unlock"

\* read_data_from_lc76g lines 223-235: probe 0x50; the last failed attempt
\* runs recovery_i2c, whose failure returns false
R_Probe(t) ==
    /\ pt[t].pc = "r_probe"
    /\ \E ok \in BOOLEAN, p50, p54, p58 \in BOOLEAN :
         IF ok
         THEN pt' = [pt EXCEPT ![t].pc = "r_cfg_len", ![t].i = 0]
         ELSE IF pt[t].i # RETRY_TIME - 1
         THEN pt' = [pt EXCEPT ![t].i = @ + 1]
         ELSE IF Recovery_I2C(p50, p54, p58) = -1
         THEN pt' = [pt EXCEPT ![t].pc = AfterRead(pt[t].op),
                               ![t].ok = FALSE]
         ELSE pt' = [pt EXCEPT ![t].pc = "r_cfg_len", ![t].i = 0]
    /\ UNCHANGED <<g_i2c_mutex, g_write_cmd_mutex, pcalls, demoVars,
                   writerVars, readerVars,
                   validatorVars, auxVars>>

\* lines 238-250: write_cr_data(QL_CR_REG, QL_CR_LEN); the last failed
\* attempt goes back to RESTART
R_CfgLen(t) ==
    /\ pt[t].pc = "r_cfg_len"
    /\ \E ok \in BOOLEAN :
         IF ok
         THEN pt' = [pt EXCEPT ![t].pc = "r_rd_len", ![t].i = 0]
         ELSE IF pt[t].i # RETRY_TIME - 1
         THEN pt' = [pt EXCEPT ![t].i = @ + 1]
         ELSE pt' = [pt EXCEPT ![t].pc = "r_probe", ![t].i = 0]
    /\ UNCHANGED <<g_i2c_mutex, g_write_cmd_mutex, pcalls, demoVars,
                   writerVars, readerVars,
                   validatorVars, auxVars>>

\* lines 253-276: read_rd_data reads the data length; 0 returns true, an
\* illegal length returns false
R_RdLen(t) ==
    /\ pt[t].pc = "r_rd_len"
    /\ \E ok \in BOOLEAN, data_length \in PicoLens :
         IF ok
         THEN IF data_length = 0
              THEN pt' = [pt EXCEPT ![t].pc = AfterRead(pt[t].op),
                                    ![t].ok = TRUE, ![t].data_length = 0]
              ELSE IF data_length >= 35 * 1024
              THEN pt' = [pt EXCEPT ![t].pc = AfterRead(pt[t].op),
                                    ![t].ok = FALSE,
                                    ![t].data_length = data_length]
              ELSE pt' = [pt EXCEPT ![t].pc = "r_cfg_data", ![t].i = 0,
                                    ![t].data_length = data_length]
         ELSE IF pt[t].i # RETRY_TIME - 1
         THEN pt' = [pt EXCEPT ![t].i = @ + 1]
         ELSE pt' = [pt EXCEPT ![t].pc = "r_probe", ![t].i = 0]
    /\ UNCHANGED <<g_i2c_mutex, g_write_cmd_mutex, pcalls, demoVars,
                   writerVars, readerVars,
                   validatorVars, auxVars>>

\* lines 294-305: write_cr_data(QL_RD_REG, data_length); after the last
\* failed attempt the data is read all the same
R_CfgData(t) ==
    /\ pt[t].pc = "r_cfg_data"
    /\ \E ok \in BOOLEAN :
         IF ok \/ pt[t].i = RETRY_TIME - 1
         THEN pt' = [pt EXCEPT ![t].pc = "r_rd_data", ![t].i = 0]
         ELSE pt' = [pt EXCEPT ![t].i = @ + 1]
    /\ UNCHANGED <<g_i2c_mutex, g_write_cmd_mutex, pcalls, demoVars,
                   writerVars, readerVars,
                   validatorVars, auxVars>>

\* lines 308-344: read_rd_data reads the data; the last failed attempt
\* returns false
R_RdData(t) ==
    /\ pt[t].pc = "r_rd_data"
    /\ \E ok \in BOOLEAN,
          d \in {x \in {FrameAck, FrameGll} : Len(x) = pt[t].data_length} :
         IF ok
         THEN pt' = [pt EXCEPT ![t].pc = AfterRead(pt[t].op),
                               ![t].ok = TRUE, ![t].data_buf = d]
         ELSE IF pt[t].i # RETRY_TIME - 1
         THEN pt' = [pt EXCEPT ![t].i = @ + 1]
         ELSE pt' = [pt EXCEPT ![t].pc = AfterRead(pt[t].op),
                               ![t].ok = FALSE]
    /\ UNCHANGED <<g_i2c_mutex, g_write_cmd_mutex, pcalls, demoVars,
                   writerVars, readerVars,
                   validatorVars, auxVars>>

\* lines 526-533 for the expected prefix "$PMTK001": strstr, the line up
\* to "\n" copied into the zeroed line buffer, lc76g_command_get_param
PicoFound(data_buf) ==
    TheValue({
       /\ p # 0
       /\ data_interception(From(data_buf, p), <<>>).ret = 0
       /\ Ql_Command_Get_Param(
             data_interception(From(data_buf, p), <<>>).des,
             EmptyContx, 0).err = No_Error :
         p \in {StrStr(data_buf, PfxAck)}})

\* lines 525-537: a successful read is searched for the response
P_Match(t) ==
    /\ pt[t].pc = "match"
    /\ IF pt[t].ok /\ PicoFound(pt[t].data_buf)
       THEN pt' = [pt EXCEPT ![t].pc = "unlock_w", ![t].found = TRUE]
       ELSE pt' = [pt EXCEPT ![t].pc = "loop"]
    /\ UNCHANGED <<g_i2c_mutex, g_write_cmd_mutex, pcalls, demoVars,
                   writerVars, readerVars,
                   validatorVars, auxVars>>

\* lines 540-541
P_UnlockW(t) ==
    /\ pt[t].pc = "unlock_w"
    /\ g_write_cmd_mutex' = 0
    /\ pt' = [pt EXCEPT ![t].pc = "done", ![t].ret = pt[t].found]
    /\ UNCHANGED <<g_i2c_mutex, pcalls, demoVars, writerVars, readerVars,
                   validatorVars, auxVars>>

\* line 549: mutex_enter_blocking(&g_i2c_mutex), then line 552
P_GpsLock(t) ==
    /\ pt[t].pc = "gps_lock"
    /\ g_i2c_mutex = 0
    /\ g_i2c_mutex' = t
    /\ pt' = [pt EXCEPT ![t].pc = "r_probe", ![t].i = 0]
    /\ UNCHANGED <<g_write_cmd_mutex, pcalls, demoVars, writerVars, readerVars,
                   validatorVars, auxVars>>

\* a task that keeps g_i2c_mutex and goes on to take g_write_cmd_mutex
P_GpsUnlock_KeepsBus(t) ==
    /\ pt[t].pc = "gps_unlock"
    /\ pt' = [pt EXCEPT ![t].pc = "lock_w"]
    /\ UNCHANGED <<g_i2c_mutex, g_write_cmd_mutex, pcalls, demoVars,
                   writerVars, readerVars, validatorVars, auxVars>>

\* lines 554-561: the data is parsed, the mutex released; the result is
\* success && gps_data->Status
P_GpsUnlock(t) ==
    /\ pt[t].pc = "gps_unlock"
    /\ g_i2c_mutex' = 0
    /\ \E Status \in BOOLEAN :
         pt' = [pt EXCEPT ![t].pc = "done", ![t].ret = pt[t].ok /\ Status]
    /\ UNCHANGED <<g_write_cmd_mutex, pcalls, demoVars, writerVars, readerVars,
                   validatorVars, auxVars>>

NextPico ==
    \E t \in Tasks :
       \/ P_Call(t)
       \/ P_LockW(t)
       \/ P_SendLock(t)
       \/ P_SendWrite(t)
       \/ P_SendUnlock(t)
       \/ P_SendRet(t)
       \/ P_Loop(t)
       \/ R_Probe(t)
       \/ R_CfgLen(t)
       \/ R_RdLen(t)
       \/ R_CfgData(t)
       \/ R_RdData(t)
       \/ P_Match(t)
       \/ P_UnlockW(t)
       \/ P_GpsLock(t)
       \/ P_GpsUnlock(t)

SpecPico == Init /\ [][NextPico]_vars

\* task t is blocked in mutex_enter_blocking(&g_write_cmd_mutex)
WaitsForWriteCmd(t) == pt[t].pc = "lock_w" /\ g_write_cmd_mutex # 0

\* task t is blocked in mutex_enter_blocking(&g_i2c_mutex)
WaitsForBus(t) == pt[t].pc \in {"send_lock", "gps_lock"} /\ g_i2c_mutex # 0

\* C37: no deadlock from lock ordering: a task that takes g_write_cmd_mutex
\* does not hold g_i2c_mutex, so g_i2c_mutex is only ever taken second, and
\* no two tasks each hold one of the two locks while waiting for the other
C37_LockOrder ==
    /\ \A t \in Tasks : pt[t].pc = "lock_w" => g_i2c_mutex # t
    /\ \A t \in Tasks : g_i2c_mutex = t => ~WaitsForBus(t)
    /\ \A t \in Tasks : g_write_cmd_mutex = t => ~WaitsForWriteCmd(t)
    /\ ~\E t1, t2 \in Tasks :
          /\ t1 # t2
          /\ g_write_cmd_mutex = t1 /\ WaitsForBus(t1)
          /\ g_i2c_mutex = t2 /\ WaitsForWriteCmd(t2)

\* C37 as stated: g_i2c_mutex is only ever acquired by a task that holds
\* g_write_cmd_mutex
C37_BusOnlyUnderWriteCmd ==
    [][\A t \in Tasks :
         (g_i2c_mutex # t /\ g_i2c_mutex' = t) => g_write_cmd_mutex = t]_vars

\* a task holds g_write_cmd_mutex and waits for g_i2c_mutex, which the
\* other task holds
C37_Witness ==
    \E t1, t2 \in Tasks :
       /\ t1 # t2
       /\ g_write_cmd_mutex = t1 /\ WaitsForBus(t1)
       /\ g_i2c_mutex = t2

(***************************************************************************)
(* Properties of the bus lock                                              *)
(***************************************************************************)
\* task t has performed a bus transaction of a read_data_from_lc76g or
\* write_data_to_lc76g call that has not returned
MidSequence(t) ==
    \/ pt[t].pc \in {"r_cfg_len", "r_rd_len", "r_cfg_data", "r_rd_data"}
    \/ pt[t].pc = "r_probe" /\ pt[t].i > 0
    \/ pt[t].pc = "send_write" /\ pt[t].wtx > 0

\* C7: a task in the middle of the bus transactions of one read or write
\* call holds g_i2c_mutex, and no two tasks are in the middle of such a
\* sequence at the same time.
C7_BusLocked ==
    /\ \A t \in Tasks : MidSequence(t) => g_i2c_mutex = t
    /\ \A t1, t2 \in Tasks :
         t1 # t2 => ~(MidSequence(t1) /\ MidSequence(t2))

(***************************************************************************)
(* Read_Data (i2c_read.c:87-231), one action per bus transaction attempt   *)
(***************************************************************************)
\* buf2num_small (i2c_utils.c:16-28): buf[0] | buf[1]<<8 | buf[2]<<16 |
\* buf[3]<<24 in a 32-bit int; a top byte >= 0x80 sets the sign bit
buf2num_small(buf) ==
    LET low == buf[1] + buf[2] * 256 + buf[3] * 65536
    IN IF buf[4] >= 128 THEN (buf[4] - 256) * 16777216 + low
       ELSE buf[4] * 16777216 + low

\* a verdict that knows no ceiling
LengthVerdict_NoCeiling(data_length) ==
    IF data_length = 0 THEN "none" ELSE "read"

\* lines 161-169: the pending length is 0, illegal, or to be read
LengthVerdict(data_length) ==
    IF data_length = 0 THEN "none"
    ELSE IF data_length >= 35 * 1024 THEN "illegal"
    ELSE "read"

\* a chunk that takes all that remains
Chunk_Whole(remain_length) ==
    [data_length |-> remain_length, remain_length |-> 0]

\* lines 175-184: the next chunk is at most QL_MAX_DATA_LENGTH bytes
Chunk(remain_length) ==
    IF remain_length > QL_MAX_DATA_LENGTH
    THEN [data_length |-> QL_MAX_DATA_LENGTH,
          remain_length |-> remain_length - QL_MAX_DATA_LENGTH]
    ELSE [data_length |-> remain_length, remain_length |-> 0]

\* lines 173-184 and 230: while (remain_length > 0) starts the next chunk,
\* else Read_Data returns total_length
WhileRemain(r) ==
    IF r.remain_length > 0
    THEN [r EXCEPT !.pc = "cfg_data", !.i = 0,
                   !.data_length = Chunk(r.remain_length).data_length,
                   !.remain_length = Chunk(r.remain_length).remain_length]
    ELSE [r EXCEPT !.pc = "done", !.ret = r.total_length]

\* a call Read_Data(i2c_fd, data_buf); lines 89-95
RD_Call ==
    /\ rd.pc \in {"idle", "done"}
    /\ rd' = [pc |-> "probe", i |-> 0, data_length |-> 0,
              remain_length |-> 0, total_length |-> 0, ret |-> 0]
    /\ rh' = NewReadHistory
    /\ UNCHANGED <<demoVars, writerVars, picoVars, validatorVars, auxVars>>

\* lines 98-115: probe 0x50; the last failed attempt runs Recovery_I2C, whose
\* failure returns -1
RD_Probe ==
    /\ rd.pc = "probe"
    /\ \E alive \in BOOLEAN :
         IF alive
         THEN /\ rd' = [rd EXCEPT !.pc = "cfg_len", !.i = 0]
              /\ rh' = [rh EXCEPT !.probe_ok = TRUE]
         ELSE IF rd.i = RETRY_TIME - 1
         THEN \E p50, p54, p58 \in BOOLEAN :
                /\ rh' = [rh EXCEPT !.probe_ok = FALSE, !.failed = TRUE,
                                    !.rec = RecoveryRun(p50, p54, p58)]
                /\ IF Recovery_I2C(p50, p54, p58) = -1
                   THEN rd' = [rd EXCEPT !.pc = "done", !.ret = -1]
                   ELSE rd' = [rd EXCEPT !.pc = "cfg_len", !.i = 0]
         ELSE /\ rd' = [rd EXCEPT !.i = @ + 1]
              /\ rh' = [rh EXCEPT !.probe_ok = FALSE, !.failed = TRUE]
    /\ UNCHANGED <<demoVars, writerVars, picoVars, validatorVars, auxVars>>

\* lines 117-137: Write_CR_Data(QL_CR_REG, QL_CR_LEN); the last failed
\* attempt goes back to RESTART
RD_CfgLen ==
    /\ rd.pc = "cfg_len"
    /\ \E ok \in BOOLEAN :
         IF ok
         THEN /\ rd' = [rd EXCEPT !.pc = "rd_len", !.i = 0]
              /\ UNCHANGED rh
         ELSE /\ rd' = IF rd.i = RETRY_TIME - 1
                       THEN [rd EXCEPT !.pc = "probe", !.i = 0]
                       ELSE [rd EXCEPT !.i = @ + 1]
              /\ rh' = [rh EXCEPT !.failed = TRUE]
    /\ UNCHANGED <<demoVars, writerVars, picoVars, validatorVars, auxVars>>

\* lines 140-184: Read_RD_Data reads the four length bytes; the last failed
\* attempt goes back to RESTART; the length decides what follows
RD_RdLen ==
    /\ rd.pc = "rd_len"
    /\ \/ \E buf \in LengthBytes :
            \E n \in {buf2num_small(buf)} :
              /\ rh' = [rh EXCEPT !.has_len = TRUE, !.len = n]
              /\ rd' = IF LengthVerdict(n) = "none"
                       THEN [rd EXCEPT !.pc = "done", !.data_length = n,
                                       !.ret = n]
                       ELSE IF LengthVerdict(n) = "illegal"
                       THEN [rd EXCEPT !.pc = "done", !.data_length = n,
                                       !.ret = -1]
                       ELSE WhileRemain([rd EXCEPT !.data_length = n,
                                                   !.remain_length = n])
       \/ /\ rd' = IF rd.i = RETRY_TIME - 1
                   THEN [rd EXCEPT !.pc = "probe", !.i = 0]
                   ELSE [rd EXCEPT !.i = @ + 1]
          /\ rh' = [rh EXCEPT !.failed = TRUE]
    /\ UNCHANGED <<demoVars, writerVars, picoVars, validatorVars, auxVars>>

\* lines 186-199: Write_CR_Data(QL_RD_REG, data_length); after the last
\* failed attempt the data is read all the same
RD_CfgData ==
    /\ rd.pc = "cfg_data"
    /\ \E ok \in BOOLEAN :
         /\ rd' = IF ok \/ rd.i = RETRY_TIME - 1
                  THEN [rd EXCEPT !.pc = "rd_data", !.i = 0]
                  ELSE [rd EXCEPT !.i = @ + 1]
         /\ rh' = [rh EXCEPT !.cfg_writes = TRUE, !.failed = @ \/ ~ok]
    /\ UNCHANGED <<demoVars, writerVars, picoVars, validatorVars, auxVars>>

\* lines 201-230: Read_RD_Data reads data_length bytes, which are copied to
\* data_buf at total_length; the last failed attempt returns -1
RD_RdData ==
    /\ rd.pc = "rd_data"
    /\ \/ /\ rh' = [rh EXCEPT !.data_reads = TRUE,
                              !.stored = rd.total_length + rd.data_length,
                              !.reqs = Append(@, rd.data_length)]
          /\ rd' = IF rd.total_length + rd.data_length >= QL_MAX_DATA_LENGTH
                   THEN [rd EXCEPT !.pc = "done",
                                   !.total_length = @ + rd.data_length,
                                   !.ret = QL_MAX_DATA_LENGTH]
                   ELSE WhileRemain([rd EXCEPT
                                       !.total_length = @ + rd.data_length])
       \/ /\ rh' = [rh EXCEPT !.data_reads = TRUE, !.failed = TRUE,
                              !.reqs = Append(@, rd.data_length)]
          /\ rd' = IF rd.i = RETRY_TIME - 1
                   THEN [rd EXCEPT !.pc = "done", !.ret = -1]
                   ELSE [rd EXCEPT !.i = @ + 1]
    /\ UNCHANGED <<demoVars, writerVars, picoVars, validatorVars, auxVars>>

NextReader ==
    \/ RD_Call
    \/ RD_Probe
    \/ RD_CfgLen
    \/ RD_RdLen
    \/ RD_CfgData
    \/ RD_RdData

SpecReader == Init /\ [][NextReader]_vars

\* the bus driver makes progress: a Read_Data call that can take a step
\* eventually takes one
FairReader == SpecReader /\ WF_vars(NextReader)

(***************************************************************************)
(* Properties of Read_Data                                                 *)
(***************************************************************************)
\* C11: every Read_Data call returns, whatever the bus does.
C11_ReadDataReturns == [](rd.pc = "probe" => <>(rd.pc = "done"))

\* C11, the poller's side: every Read_Thread cycle that has started reaches
\* its end, whatever Write_Data returns.
C11_PollerCycles == [](rt.pc = "write" => <>(rt.pc = "lock"))

\* C13: a pending length of 0 makes Read_Data return 0 at once, with no
\* read-data configuration write and no data read; a pending length of
\* 35*1024 or more makes it return -1 at once, with no data read.
C13_LengthZeroOrIllegal ==
    /\ (rh.has_len /\ rh.len = 0)
          => /\ rd.pc = "done" /\ rd.ret = 0
             /\ ~rh.cfg_writes /\ ~rh.data_reads
    /\ (rh.has_len /\ rh.len >= 35 * 1024)
          => /\ rd.pc = "done" /\ rd.ret = -1
             /\ ~rh.data_reads

\* Read_Data has returned -1 for a pending length of exactly 35*1024
C13_Witness ==
    /\ rd.pc = "done"
    /\ rh.has_len
    /\ rh.len = 35 * 1024
    /\ rd.ret = -1
    /\ ~rh.data_reads

\* C14: a pending length that decodes to a negative value makes Read_Data
\* return -1.
C14_NegativeLengthIsError ==
    (rh.has_len /\ rh.len < 0) => (rd.pc = "done" /\ rd.ret = -1)

\* C15: one Read_Data call stores at most QL_MAX_DATA_LENGTH data bytes,
\* and returns -1 or the number of data bytes stored, which is in
\* 0..QL_MAX_DATA_LENGTH.
C15_BufferBounded ==
    /\ rh.stored <= QL_MAX_DATA_LENGTH
    /\ rd.pc = "done"
          => \/ rd.ret = -1
             \/ rd.ret \in 0..QL_MAX_DATA_LENGTH /\ rd.ret = rh.stored

\* Read_Data has returned QL_MAX_DATA_LENGTH for a longer pending length
C15_Witness ==
    /\ rd.pc = "done"
    /\ rh.has_len
    /\ rh.len > QL_MAX_DATA_LENGTH
    /\ rd.ret = QL_MAX_DATA_LENGTH
    /\ rh.stored = QL_MAX_DATA_LENGTH

\* the sub-addresses in the order Recovery_I2C probes them
RecoveryOrder == <<QL_CRCW_ADDR, QL_RD_ADDR, QL_WR_ADDR>>

\* C21: Recovery_I2C probes 0x50, 0x54, 0x58 in that order, a later address
\* only when every earlier one failed; it returns 0, 1 or 2 for the first
\* address that acknowledges and -1 exactly when all three fail.
C21_RecoveryOrder ==
    rh.rec.ran =>
       /\ rh.rec.probed = SubSeq(RecoveryOrder, 1, Len(rh.rec.probed))
       /\ Len(rh.rec.probed) \in 1..3
       /\ \A k \in 2..Len(rh.rec.probed) :
            \A j \in 1..(k - 1) : ~rh.rec.acks[j]
       /\ rh.rec.ret \in {-1, 0, 1, 2}
       /\ rh.rec.ret # -1 =>
            /\ rh.rec.acks[rh.rec.ret + 1]
            /\ \A j \in 1..rh.rec.ret : ~rh.rec.acks[j]
            /\ Len(rh.rec.probed) = rh.rec.ret + 1
       /\ rh.rec.ret = -1 <=> \A j \in 1..3 : ~rh.rec.acks[j]

\* Recovery_I2C has returned 2: 0x50 and 0x54 failed, 0x58 acknowledged
C21_Witness ==
    /\ rh.rec.ran
    /\ rh.rec.acks = <<FALSE, FALSE, TRUE>>
    /\ rh.rec.probed = RecoveryOrder
    /\ rh.rec.ret = 2

\* C26, Read_Data: the first register write of Read_Data is reached only
\* after a probe of 0x50 has been acknowledged.
C26_ProbeBeforeRegister ==
    rd.pc \in {"cfg_len", "rd_len", "cfg_data", "rd_data"} => rh.probe_ok

\* C27: when every bus operation of a Read_Data call succeeded, a pending
\* length L with 0 < L <= 4096 is read in one transaction of exactly L bytes
\* and L is returned; a pending length with 4096 < L < 35*1024 is read in
\* transactions of at most 4096 bytes, the call stops after the transaction
\* that reaches 4096 bytes and returns 4096.
C27_ChunkedRead ==
    (rd.pc = "done" /\ rh.has_len /\ ~rh.failed) =>
       /\ (0 < rh.len /\ rh.len <= QL_MAX_DATA_LENGTH) =>
             /\ rh.reqs = <<rh.len>>
             /\ rd.ret = rh.len
       /\ (QL_MAX_DATA_LENGTH < rh.len /\ rh.len < 35 * 1024) =>
             /\ \A k \in 1..Len(rh.reqs) : rh.reqs[k] <= QL_MAX_DATA_LENGTH
             /\ rh.reqs = <<QL_MAX_DATA_LENGTH>>
             /\ rh.stored = QL_MAX_DATA_LENGTH
             /\ rd.ret = QL_MAX_DATA_LENGTH

\* Read_Data has returned 4096 for a pending length of 4097 after one
\* transaction of 4096 bytes, with no failed bus operation
C27_Witness ==
    /\ rd.pc = "done"
    /\ rh.has_len /\ ~rh.failed
    /\ rh.len = QL_MAX_DATA_LENGTH + 1
    /\ rh.reqs = <<QL_MAX_DATA_LENGTH>>
    /\ rd.ret = QL_MAX_DATA_LENGTH

(***************************************************************************)
(* The validator applied to frames (ql_cmd_decode.c:6-49)                  *)
(***************************************************************************)
\* "%02X": one hexadecimal digit, upper case
HexDigit(n) == IF n < 10 THEN 48 + n ELSE 55 + n

\* '$' payload '*' text "\r\n"
Frame(payload, text) == <<36>> \o payload \o <<42>> \o text \o <<13, 10>>

\* the frame an encoder builds for a payload: the checksum of
\* Ql_Get_Command_Checksum rendered with "*%02X\r\n"
EncodeFrame(payload) ==
    LET checksum == Ql_Get_Command_Checksum(payload)
    IN Frame(payload, <<HexDigit(checksum \div 16), HexDigit(checksum % 16)>>)

\* the contexts a call can be given: a zeroed one, and the one an earlier
\* accepted frame left behind
Contexts ==
    {EmptyContx, Ql_Command_Get_Param(FrameAck, EmptyContx, 0).contx}

\* a frame is handed to the validator: encoded from a payload, or with an
\* arbitrary two-character checksum text
V_Frame ==
    /\ vs.pc = "idle"
    /\ \E payload \in Payloads, contx \in Contexts, encoded \in BOOLEAN,
          l, r \in ChecksumChars :
         vs' = [pc |-> "framed", payload |-> payload,
                command |-> IF encoded THEN EncodeFrame(payload)
                            ELSE Frame(payload, <<l, r>>),
                encoded |-> encoded, flipped |-> FALSE, base |-> <<>>,
                contx_in |-> contx, err |-> No_Error, contx_out |-> contx]
    /\ UNCHANGED <<demoVars, writerVars, picoVars, readerVars, auxVars>>

\* one byte strictly between '$' and '*' of an accepted frame is replaced by
\* a different byte
V_Flip ==
    /\ vs.pc = "validated"
    /\ vs.err = No_Error
    /\ \E i \in 2..(Len(vs.command) - 5) :
         \E b \in PayloadBytes \ {vs.command[i]} :
           vs' = [vs EXCEPT !.pc = "framed",
                            !.base = vs.command,
                            !.command = [vs.command EXCEPT ![i] = b],
                            !.payload = [vs.payload EXCEPT ![i - 1] = b],
                            !.encoded = FALSE,
                            !.flipped = TRUE]
    /\ UNCHANGED <<demoVars, writerVars, picoVars, readerVars, auxVars>>

\* Ql_Command_Get_Param(command, strlen(command), contx)
V_Validate ==
    /\ vs.pc = "framed"
    /\ \E g \in {Ql_Command_Get_Param(vs.command, vs.contx_in, 0)} :
         vs' = [vs EXCEPT !.pc = "validated", !.err = g.err,
                          !.contx_out = g.contx]
    /\ UNCHANGED <<demoVars, writerVars, picoVars, readerVars, auxVars>>

NextValidator ==
    \/ V_Frame
    \/ V_Flip
    \/ V_Validate

SpecValidator == Init /\ [][NextValidator]_vars

(***************************************************************************)
(* Properties of the validator                                             *)
(***************************************************************************)
\* the validator has returned for the frame vs.command
Validated == vs.pc = "validated"

\* printable ASCII
Printable(b) == b >= 32 /\ b <= 126

\* a hexadecimal digit, either letter case
IsHexChar(c) ==
    \/ c >= 48 /\ c <= 57
    \/ c >= 65 /\ c <= 70
    \/ c >= 97 /\ c <= 102

\* the value of a hexadecimal digit
HexValue(c) ==
    IF c <= 57 THEN c - 48 ELSE IF c <= 70 THEN c - 55 ELSE c - 87

\* the two characters after '*'
ChecksumText(command) ==
    <<command[Len(command) - 3], command[Len(command) - 2]>>

\* C16: a frame encoded from a payload of printable bytes other than '*' is
\* accepted with No_Error, and contx->checksum is the XOR of the payload.
C16_RoundTrip ==
    (/\ Validated
     /\ vs.encoded
     /\ \A i \in 1..Len(vs.payload) :
          Printable(vs.payload[i]) /\ vs.payload[i] # 42)
        => /\ vs.err = No_Error
           /\ vs.contx_out.checksum = XorAll(vs.payload)

\* C17: an accepted frame with one byte between '$' and '*' replaced by a
\* different byte is not accepted.
C17_ChecksumSensitive ==
    (Validated /\ vs.flipped) => vs.err # No_Error

\* the frame derived from an accepted one by replacing one payload byte was
\* rejected with CheckSum_Error
C17_Witness ==
    /\ Validated
    /\ vs.flipped
    /\ Len(vs.base) = Len(vs.command)
    /\ vs.base # vs.command
    /\ vs.err = CheckSum_Error

\* C18: an accepted frame has two hexadecimal digits after '*' whose value
\* is the XOR of the bytes between '$' and '*'.
C18_ChecksumTextHex ==
    (Validated /\ vs.err = No_Error)
        => /\ IsHexChar(ChecksumText(vs.command)[1])
           /\ IsHexChar(ChecksumText(vs.command)[2])
           /\ HexValue(ChecksumText(vs.command)[1]) * 16
                 + HexValue(ChecksumText(vs.command)[2])
              = XorAll(vs.payload)

\* C19: a well-framed frame is rejected with Data_Error exactly when a byte
\* between '$' and '*' is outside 0x20..0x7E.
C19_ByteRange ==
    Validated
        => (vs.err = Data_Error
              <=> \E i \in 1..Len(vs.payload) : ~Printable(vs.payload[i]))

\* C20: when the validator returns an error, the context is as it was
\* before the call.
C20_NoPartialApply ==
    (Validated /\ vs.err # No_Error) => vs.contx_out = vs.contx_in

\* the number of ',' and '*' in a frame
Separators(command) ==
    Cardinality({i \in 1..Len(command) : command[i] \in {44, 42}})

\* the substrings of a frame between consecutive separators, in order
RECURSIVE Fields(_)
Fields(command) ==
    IF \A i \in 1..Len(command) : command[i] \notin {44, 42}
    THEN <<command>>
    ELSE LET n == CHOOSE i \in 1..Len(command) :
                     /\ command[i] \in {44, 42}
                     /\ \A m \in 1..(i - 1) : command[m] \notin {44, 42}
         IN <<SubSeq(command, 1, n - 1)>>
               \o Fields(SubSeq(command, n + 1, Len(command)))

\* C25: when the validator returns No_Error, param_num is the number of ','
\* and '*' in the frame, param[0..param_num] read as C strings are the
\* substrings between consecutive separators in order, the last one holds
\* the two checksum characters, and contx->checksum is the value these two
\* hexadecimal characters denote.
C25_ParamSplit ==
    (Validated /\ vs.err = No_Error) =>
       /\ vs.contx_out.param_num = Separators(vs.command)
       /\ ParamList(vs.contx_out, vs.contx_out.param_num)
             = Fields(vs.command)
       /\ SubSeq(ParamRow(vs.contx_out, vs.contx_out.param_num), 1, 2)
             = ChecksumText(vs.command)
       /\ (\A i \in 1..2 : IsHexChar(ChecksumText(vs.command)[i])) =>
             vs.contx_out.checksum
                = HexValue(ChecksumText(vs.command)[1]) * 16
                     + HexValue(ChecksumText(vs.command)[2])

\* C25 for frames whose fields all fit a row of param with their terminator
C25_ShortFields ==
    (\A f \in 1..Len(Fields(vs.command)) :
        Len(Fields(vs.command)[f]) < PARAM_COLS) => C25_ParamSplit

\* C35: the validator never writes outside its 40 x 30 table: every write to
\* param[j][k] has j in 0..39 and k in 0..29, every read of the framing test
\* is inside the command, and a frame with a field of 30 or more characters
\* is rejected with Format_Error
C35_InsideTable ==
    vs.pc = "validated" =>
      /\ \A i \in FramingReads(vs.command) : i \in 0..(Len(vs.command) - 1)
      /\ (/\ vs.command[1] = 36
          /\ vs.command[Len(vs.command)] = 10
          /\ vs.command[Len(vs.command) - 1] = 13
          /\ vs.command[Len(vs.command) - 4] = 42)
           => \A w \in ParamWrites(vs.command, 0, 0, 0) :
                 /\ w[1] \in 0..(PARAM_ROWS - 1)
                 /\ w[2] \in 0..(PARAM_COLS - 1)
      /\ (\E f \in 1..Len(Fields(vs.command)) :
             Len(Fields(vs.command)[f]) >= PARAM_COLS)
           => vs.err = Format_Error

(***************************************************************************)
(* The byte codec (i2c_utils.c:8-28) and the control messages              *)
(* (i2c_write.c:24-38, i2c_read.c:70-83)                                   *)
(***************************************************************************)
\* the registers of i2c_register.h as the int the functions receive:
\* 0xaa510008, 0xaa512000, 0xaa510004 and 0xaa531000 less 2^32
QL_CR_REG == -1437532152
QL_RD_REG == -1437523968
QL_CW_REG == -1437532156
QL_WR_REG == -1437396992
QL_CR_LEN == 4
QL_CW_LEN == 4

Registers == {QL_CR_REG, QL_RD_REG, QL_CW_REG, QL_WR_REG}

\* byte values at the edges of the sign bit and of a carry
SampleBytes == {0, 1, 127, 128, 255}

\* the ints whose four bytes are sample bytes, from -2^31 to 2^31 - 1
CodecValues ==
    {b0 + b1 * 256 + b2 * 65536
        + (IF b3 >= 128 THEN b3 - 256 ELSE b3) * 16777216 :
       b0 \in SampleBytes, b1 \in SampleBytes, b2 \in SampleBytes,
       b3 \in SampleBytes}

\* the lengths passed as cfg_len: the two register lengths, the lengths of
\* a read or a write, and what buf2num_small made of the module's answer
CfgLengths == {QL_CR_LEN, QL_CW_LEN, 0, 1, 255, 256, QL_MAX_DATA_LENGTH, -1}

\* a codec that stores the most significant byte first
num2buf_small_BigEndian(num) ==
    [i \in 1..4 |-> (num \div (256 ^ (4 - i))) % 256]

\* num2buf_small(num, buf): buf[i] = num >> (8*i) & 0xff, with the
\* arithmetic shift of a signed int
num2buf_small(num) ==
    [i \in 1..4 |-> (num \div (256 ^ (i - 1))) % 256]

\* Write_CW_Data and Write_CR_Data(fd, reg, cfg_len, write_buffer): the
\* address, and the msgs->len bytes of write_buffer handed to ioctl
ControlMessage(reg, cfg_len) ==
    [addr |-> QL_CRCW_ADDR,
     bytes |-> SubSeq(num2buf_small(reg) \o num2buf_small(cfg_len), 1, 8),
     reg |-> reg, cfg_len |-> cfg_len]

\* num2buf_small is called on a number
CD_Encode ==
    /\ cd.pc = "idle"
    /\ \E num \in CodecValues \cup Registers :
         cd' = [cd EXCEPT !.pc = "encoded", !.num = num, !.back = 0,
                          !.buf = num2buf_small(num)]
    /\ UNCHANGED <<demoVars, writerVars, picoVars, readerVars, validatorVars,
                   lt, wk>>

\* buf2num_small is called on the four bytes
CD_Decode ==
    /\ cd.pc = "encoded"
    /\ cd' = [cd EXCEPT !.pc = "decoded", !.back = buf2num_small(cd.buf)]
    /\ UNCHANGED <<demoVars, writerVars, picoVars, readerVars, validatorVars,
                   lt, wk>>

\* Write_CR_Data or Write_CW_Data builds and sends a control message
CD_Control ==
    /\ cd.pc \in {"idle", "decoded"}
    /\ \E reg \in Registers, cfg_len \in CfgLengths :
         cd' = [cd EXCEPT !.msg = ControlMessage(reg, cfg_len)]
    /\ UNCHANGED <<demoVars, writerVars, picoVars, readerVars, validatorVars,
                   lt, wk>>

NextCodec ==
    \/ CD_Encode
    \/ CD_Decode
    \/ CD_Control

SpecCodec == Init /\ [][NextCodec]_vars

\* buf holds num in four bytes, least significant first: two's complement
\* of 32 bits read in base 256
LittleEndian(buf, num) ==
    /\ Len(buf) = 4
    /\ \A i \in 1..4 : buf[i] \in 0..255
    /\ num < 0 <=> buf[4] >= 128
    /\ num = buf[1] + buf[2] * 256 + buf[3] * 65536
               + (IF buf[4] >= 128 THEN buf[4] - 256 ELSE buf[4]) * 16777216

\* C39: for every 32-bit n, buf2num_small of the bytes of num2buf_small(n)
\* is n, byte i holding bits 8i..8i+7; and every control message of
\* Write_CR_Data / Write_CW_Data is 8 bytes, the register word then the
\* length word, both little-endian, sent to the control address
C39_RoundTrip ==
    /\ cd.pc \in {"encoded", "decoded"} => LittleEndian(cd.buf, cd.num)
    /\ cd.pc = "decoded" => cd.back = cd.num
    /\ cd.msg # NoMessage =>
         /\ cd.msg.addr = QL_CRCW_ADDR
         /\ Len(cd.msg.bytes) = 8
         /\ LittleEndian(SubSeq(cd.msg.bytes, 1, 4), cd.msg.reg)
         /\ LittleEndian(SubSeq(cd.msg.bytes, 5, 8), cd.msg.cfg_len)

\* a negative number with four different bytes made the round trip, and the
\* control message that configures a read of 4096 bytes was built
C39_Witness ==
    /\ cd.pc = "decoded"
    /\ cd.num = QL_RD_REG
    /\ cd.buf = <<0, 32, 81, 170>>
    /\ cd.back = QL_RD_REG
    /\ cd.msg.bytes = <<0, 32, 81, 170, 0, 16, 0, 0>>

====
